---- MODULE Spec2Model ----
(***************************************************************************)
(* Model of the agent trust and airdrop-eligibility engine                 *)
(* (src/src/verifier.py, class MCPVerifier).                               *)
(*                                                                         *)
(* verify_agent is an asyncio coroutine: it yields control only at its     *)
(* four awaits (the oracle calls); every stretch of code between two       *)
(* awaits runs without interleaving.  One action of the model is one such  *)
(* stretch.  Time is the value datetime.now() returns, in hours.           *)
(***************************************************************************)
EXTENDS Integers, Sequences, FiniteSets, Bags, TLC

VARIABLES
    verified_agents,       \* MCPVerifier.verified_agents: address -> AgentRecord
    daily_airdrop_count,   \* MCPVerifier.daily_airdrop_count
    last_reset,            \* MCPVerifier.last_reset
    now,                   \* the clock
    req,                   \* the verify_agent coroutine frames
    ret,                   \* the result just returned
    succLog,               \* history: address -> times of its successful verifications
    capDenied,             \* history: identities once denied by the daily cap alone
    rewarded,              \* history: address -> the rewards granted to it so far
    identity,              \* AIBTCAgent.identity
    airdrop_history,       \* AIBTCAgent.airdrop_history
    response,              \* what verify_and_airdrop returned last
    proposals,             \* WhitelistManager.proposals: dao_id -> DAOProposal
    dao_ret                \* what the DAO call made last returned

agentVars == <<identity, airdrop_history, response>>
daoVars == <<proposals, dao_ret>>

vars == <<verified_agents, daily_airdrop_count, last_reset, now, req, ret,
          succLog, capDenied, rewarded, agentVars, daoVars>>

(* ---------------------------- bounds ----------------------------------- *)
NReq        == 2     \* verify_agent coroutines in flight at once (Spec, SpecCap)
MaxTime     == 24    \* last clock value of Spec, in hours
MaxTimeSeq  == 72    \* last clock value of SpecSeq
MaxTimeCap  == 36    \* last clock value of SpecCap
MaxTimeLife == 120   \* last clock value of SpecLife
MaxPreset   == 6     \* largest verification_count a test presets (SpecTrust)
MaxChecks   == 5     \* longest checks_passed list handed to _calculate_trust_level
MaxTimeSkew == 72    \* last clock value of SpecSkew
MaxTimeFault == 24   \* last clock value of SpecFault
MaxTimeLive == 12    \* last clock value of SpecLive
MaxCommits  == 3     \* direct _record_verification calls of SpecRecord
MaxTimeRecord == 12  \* last clock value of SpecRecord
MaxTimeBlind == 72   \* last clock value of SpecBlind
MaxPad      == 29    \* most characters after the prefix of an address (SpecAddr)
NCap        == 11    \* identities of SpecCap

(* ------------------------- program constants --------------------------- *)
UNKNOWN     == 0
PENDING     == 1
BASIC       == 2
TRUSTED     == 3
ESTABLISHED == 4
TrustLevel  == {UNKNOWN, PENDING, BASIC, TRUSTED, ESTABLISHED}
\* level.name of each member of the enumeration.
TrustLevelName ==
    (UNKNOWN :> "UNKNOWN") @@ (PENDING :> "PENDING") @@ (BASIC :> "BASIC") @@
    (TRUSTED :> "TRUSTED") @@ (ESTABLISHED :> "ESTABLISHED")

MAX_AIRDROPS_PER_DAY     == 10
MAX_AIRDROPS_PER_ADDRESS == 5
COOLDOWN_HOURS           == 24
min_stx_balance          == 100000

\* Variant: the STX amount stays flat from BASIC to TRUSTED.
AIRDROP_AMOUNTS_flat_stx ==
    (BASIC       :> [sbtc_sats |-> 1000,  stx_ustx |-> 100000]) @@
    (TRUSTED     :> [sbtc_sats |-> 5000,  stx_ustx |-> 100000]) @@
    (ESTABLISHED :> [sbtc_sats |-> 10000, stx_ustx |-> 1000000])

AIRDROP_AMOUNTS ==
    (BASIC       :> [sbtc_sats |-> 1000,  stx_ustx |-> 100000]) @@
    (TRUSTED     :> [sbtc_sats |-> 5000,  stx_ustx |-> 500000]) @@
    (ESTABLISHED :> [sbtc_sats |-> 10000, stx_ustx |-> 1000000])

None == "None"

(* ------------------------------ inputs --------------------------------- *)
AddrA     == "SPAAAAAAAAAAAAAAAAAAAAAAAAAAAA"      \* mainnet form, length 30
AddrB     == "STBBBBBBBBBBBBBBBBBBBBBBBBBBBB"      \* testnet form, length 30
AddrShort == "SPAAAAAAAAAAAAAAAAAAAAAAAAAAA"       \* right prefix, length 29
AddrPfx   == "SMAAAAAAAAAAAAAAAAAAAAAAAAAAAA"      \* length 30, wrong prefix

ValidAddrs   == {AddrA, AddrB}
InvalidAddrs == {AddrShort, AddrPfx}
CapAddr(i)   == "SP0000000000000000000000000000" \o ToString(i)
CapAddrs     == [i \in 1..NCap |-> CapAddr(i)]

GithubRepos  == {None, "owner/repo"}
McpEndpoints == {None, "https://mcp.example"}
BnsNames     == {None, "agent.btc"}

\* Python truthiness of an Optional[str] argument.
Truthy(x) == x /= None /\ x /= ""

\* What the HTTP collaborators can answer: an exception (connection failure,
\* timeout) or a response with a status code.
Exc == [kind |-> "exception", status |-> 0, balance |-> 0, owner |-> ""]
Http(s) == [kind |-> "response", status |-> s, balance |-> 0, owner |-> ""]
BalanceResponses ==
    {Exc, Http(500),
     [Http(200) EXCEPT !.balance = min_stx_balance - 1],
     [Http(200) EXCEPT !.balance = min_stx_balance]}
EndpointResponses == {Exc, Http(200), Http(400), Http(405), Http(500)}
BnsResponses(a) ==
    {Exc, Http(404), [Http(200) EXCEPT !.owner = a],
     [Http(200) EXCEPT !.owner = AddrPfx]}
\* _verify_github_mcp asks for package.json, then for three config paths:
\* exc is the request that raised, pkg_status and pkg_mcp the package.json
\* answer, cfg_found whether one of the config paths answered 200.
Gh(e, s, m, c) == [exc |-> e, pkg_status |-> s, pkg_mcp |-> m, cfg_found |-> c]
GithubResponses ==
    {Gh("pkg", 0, FALSE, FALSE), Gh("none", 200, TRUE, FALSE),
     Gh("none", 404, FALSE, TRUE), Gh("none", 404, FALSE, FALSE),
     Gh("cfg", 200, FALSE, FALSE)}

\* The clock is observed every half cooldown: 12h is inside, 24h on and 36h
\* beyond both 24-hour thresholds of the rate limiter.
ClockSteps == {COOLDOWN_HOURS \div 2}

(* --------------------------- pure functions ---------------------------- *)
startswith(s, p) == Len(s) >= Len(p) /\ SubSeq(s, 1, Len(p)) = p

\* Variant: without the parentheses, `and` binds to the second prefix only.
is_valid_stacks_address_unparenthesized(address) ==
    startswith(address, "SP")
    \/ (startswith(address, "ST") /\ Len(address) >= 30)

\* Variant: the length test is off by one.
is_valid_stacks_address_len29(address) ==
    (startswith(address, "SP") \/ startswith(address, "ST"))
    /\ Len(address) >= 29

is_valid_stacks_address(address) ==
    (startswith(address, "SP") \/ startswith(address, "ST"))
    /\ Len(address) >= 30

check_stx_balance(resp) ==
    IF resp.kind = "response" /\ resp.status = 200 THEN resp.balance ELSE 0

verify_github_mcp(resp) ==
    IF resp.exc = "pkg" THEN FALSE
    ELSE IF resp.pkg_status = 200 /\ resp.pkg_mcp THEN TRUE
    ELSE IF resp.exc = "cfg" THEN FALSE
    ELSE resp.cfg_found

\* Variant: an endpoint whose request raised counts as alive.
verify_mcp_endpoint_exc_alive(resp) ==
    resp.kind = "exception" \/ resp.status \in {200, 400, 405}

verify_mcp_endpoint(resp) ==
    resp.kind = "response" /\ resp.status \in {200, 400, 405}

verify_bns_ownership(address, resp) ==
    resp.kind = "response" /\ resp.status = 200 /\ resp.owner = address

\* Variant: the stake floor is not applied.
stake_ok_any(balance) == balance >= 0

stake_ok(balance) == balance >= min_stx_balance

Contains(seq, x) == \E i \in 1..Len(seq) : seq[i] = x

HasRecord(address) == address \in DOMAIN verified_agents

\* Variant: the TRUSTED threshold is tested with >.
\* Variant: one earlier verification is enough for TRUSTED.
calculate_trust_level_early(checks_passed, address) ==
    IF HasRecord(address) /\ verified_agents[address].verification_count >= 5
        THEN ESTABLISHED
    ELSE IF HasRecord(address) /\ verified_agents[address].verification_count >= 1
        THEN TRUSTED
    ELSE IF Len(checks_passed) >= 4 THEN BASIC
    ELSE IF Len(checks_passed) >= 2 THEN PENDING
    ELSE UNKNOWN

\* Variant: the level never falls below the one stored in the record.
calculate_trust_level_sticky(checks_passed, address) ==
    LET fresh == IF HasRecord(address)
                    /\ verified_agents[address].verification_count >= 5
                    THEN ESTABLISHED
                 ELSE IF HasRecord(address)
                    /\ verified_agents[address].verification_count >= 2
                    THEN TRUSTED
                 ELSE IF Len(checks_passed) >= 4 THEN BASIC
                 ELSE IF Len(checks_passed) >= 2 THEN PENDING
                 ELSE UNKNOWN
    IN  IF HasRecord(address) /\ verified_agents[address].trust_level > fresh
        THEN verified_agents[address].trust_level
        ELSE fresh

calculate_trust_level_gt(checks_passed, address) ==
    IF HasRecord(address) /\ verified_agents[address].verification_count >= 5
        THEN ESTABLISHED
    ELSE IF HasRecord(address) /\ verified_agents[address].verification_count > 2
        THEN TRUSTED
    ELSE IF Len(checks_passed) >= 4 THEN BASIC
    ELSE IF Len(checks_passed) >= 2 THEN PENDING
    ELSE UNKNOWN

calculate_trust_level(checks_passed, address) ==
    IF HasRecord(address) /\ verified_agents[address].verification_count >= 5
        THEN ESTABLISHED
    ELSE IF HasRecord(address) /\ verified_agents[address].verification_count >= 2
        THEN TRUSTED
    ELSE IF Len(checks_passed) >= 4 THEN BASIC
    ELSE IF Len(checks_passed) >= 2 THEN PENDING
    ELSE UNKNOWN

\* Variants of _check_rate_limits, one slip each: the window reset taken at
\* exactly 24h (resetGE), the cap tested before the reset (capFirst) or with
\* > (capGT), the cooldown tested with <= (coolLE), the per-address limit
\* tested with > (addrGT).
limiter_variant(address, resetGE, capFirst, capGT, coolLE, addrGT) ==
    LET reset == IF resetGE THEN now - last_reset >= 24 ELSE now - last_reset > 24
        cnt   == IF reset THEN 0 ELSE daily_airdrop_count
        lr    == IF reset THEN now ELSE last_reset
        tested == IF capFirst THEN daily_airdrop_count ELSE cnt
        capHit == IF capGT THEN tested > MAX_AIRDROPS_PER_DAY
                  ELSE tested >= MAX_AIRDROPS_PER_DAY
        age   == now - verified_agents[address].last_activity
        cool  == IF coolLE THEN age <= COOLDOWN_HOURS ELSE age < COOLDOWN_HOURS
        spent == IF addrGT
                 THEN verified_agents[address].verification_count
                          > MAX_AIRDROPS_PER_ADDRESS
                 ELSE verified_agents[address].verification_count
                          >= MAX_AIRDROPS_PER_ADDRESS
        ok    == ~capHit /\ (HasRecord(address) => ~cool /\ ~spent)
    IN  [allowed |-> ok, daily_airdrop_count |-> cnt, last_reset |-> lr]

check_rate_limits_reset_ge(address) ==
    limiter_variant(address, TRUE, FALSE, FALSE, FALSE, FALSE)
check_rate_limits_cap_first(address) ==
    limiter_variant(address, FALSE, TRUE, FALSE, FALSE, FALSE)
check_rate_limits_cap_gt(address) ==
    limiter_variant(address, FALSE, FALSE, TRUE, FALSE, FALSE)
check_rate_limits_cooldown_le(address) ==
    limiter_variant(address, FALSE, FALSE, FALSE, TRUE, FALSE)
check_rate_limits_addr_gt(address) ==
    limiter_variant(address, FALSE, FALSE, FALSE, FALSE, TRUE)

\* Variant: the cooldown runs from the latest activity of any identity.
check_rate_limits_shared_cooldown(address) ==
    LET rl == limiter_variant(address, FALSE, FALSE, FALSE, FALSE, FALSE)
    IN  [rl EXCEPT !.allowed =
            /\ @
            /\ \A o \in DOMAIN verified_agents :
                  now - verified_agents[o].last_activity >= COOLDOWN_HOURS]

\* Variant: the limiter charges the daily counter as soon as it allows.
check_rate_limits_charge(address) ==
    LET rl == limiter_variant(address, FALSE, FALSE, FALSE, FALSE, FALSE)
    IN  [rl EXCEPT !.daily_airdrop_count = IF rl.allowed THEN @ + 1 ELSE @]

\* _check_rate_limits: the value returned and the limiter fields it leaves.
check_rate_limits(address) ==
    LET reset == now - last_reset > 24
        cnt   == IF reset THEN 0 ELSE daily_airdrop_count
        lr    == IF reset THEN now ELSE last_reset
        ok    == IF cnt >= MAX_AIRDROPS_PER_DAY THEN FALSE
                 ELSE IF HasRecord(address)
                      THEN IF now - verified_agents[address].last_activity < COOLDOWN_HOURS
                              THEN FALSE
                           ELSE IF verified_agents[address].verification_count
                                       >= MAX_AIRDROPS_PER_ADDRESS
                              THEN FALSE
                           ELSE TRUE
                 ELSE TRUE
    IN  [allowed |-> ok, daily_airdrop_count |-> cnt, last_reset |-> lr]

\* Variants of _record_verification: an existing record keeps its old
\* last_activity (touch = FALSE); the daily counter is not incremented
\* (step = 0).
record_variant(address, github_repo, bns_name, trust_level, count, touch, step) ==
    LET rec == IF HasRecord(address)
               THEN [verified_agents[address] EXCEPT
                        !.verification_count = @ + 1,
                        !.last_activity = IF touch THEN now ELSE @,
                        !.trust_level = trust_level]
               ELSE [address |-> address,
                     github_repo |-> github_repo,
                     bns_name |-> bns_name,
                     trust_level |-> trust_level,
                     total_airdrops_sats |-> 0,
                     total_airdrops_stx |-> 0,
                     verification_count |-> 1,
                     first_seen |-> now,
                     last_activity |-> now]
    IN  [verified_agents |->
            [a \in DOMAIN verified_agents \cup {address} |->
                IF a = address THEN rec ELSE verified_agents[a]],
         daily_airdrop_count |-> count + step]

record_verification_stale(address, github_repo, bns_name, trust_level, count) ==
    record_variant(address, github_repo, bns_name, trust_level, count, FALSE, 1)
record_verification_uncounted(address, github_repo, bns_name, trust_level, count) ==
    record_variant(address, github_repo, bns_name, trust_level, count, TRUE, 0)

\* Variant: the counter is incremented inside the `if existing` branch only.
record_verification_count_existing(address, github_repo, bns_name, trust_level, count) ==
    record_variant(address, github_repo, bns_name, trust_level, count, TRUE,
                   IF HasRecord(address) THEN 1 ELSE 0)

\* Variant: an existing record's first_seen is rewritten with the rest.
record_verification_reseen(address, github_repo, bns_name, trust_level, count) ==
    [verified_agents |->
        [a \in DOMAIN verified_agents \cup {address} |->
            IF a = address
            THEN [address |-> address,
                  github_repo |-> IF HasRecord(a) THEN verified_agents[a].github_repo
                                  ELSE github_repo,
                  bns_name |-> IF HasRecord(a) THEN verified_agents[a].bns_name
                               ELSE bns_name,
                  trust_level |-> trust_level,
                  total_airdrops_sats |-> 0, total_airdrops_stx |-> 0,
                  verification_count |->
                      IF HasRecord(a)
                      THEN verified_agents[a].verification_count + 1 ELSE 1,
                  first_seen |-> now, last_activity |-> now]
            ELSE verified_agents[a]],
     daily_airdrop_count |-> count + 1]

\* Variant: a fresh record is written over an existing one.
record_verification_recount(address, github_repo, bns_name, trust_level, count) ==
    [verified_agents |->
        [a \in DOMAIN verified_agents \cup {address} |->
            IF a = address
            THEN [address |-> address, github_repo |-> github_repo,
                  bns_name |-> bns_name, trust_level |-> trust_level,
                  total_airdrops_sats |-> 0, total_airdrops_stx |-> 0,
                  verification_count |-> 1, first_seen |-> now,
                  last_activity |-> now]
            ELSE verified_agents[a]],
     daily_airdrop_count |-> count + 1]

\* Variant: the ledger is rebuilt around the one record written.
record_verification_replace(address, github_repo, bns_name, trust_level, count) ==
    [verified_agents |->
        [a \in {address} |->
            IF HasRecord(a)
            THEN [verified_agents[a] EXCEPT !.verification_count = @ + 1,
                                            !.last_activity = now,
                                            !.trust_level = trust_level]
            ELSE [address |-> address, github_repo |-> github_repo,
                  bns_name |-> bns_name, trust_level |-> trust_level,
                  total_airdrops_sats |-> 0, total_airdrops_stx |-> 0,
                  verification_count |-> 1, first_seen |-> now,
                  last_activity |-> now]],
     daily_airdrop_count |-> count + 1]

\* Variant: an existing record takes the evidence of the latest request.
record_verification_last_write(address, github_repo, bns_name, trust_level, count) ==
    [verified_agents |->
        [a \in DOMAIN verified_agents \cup {address} |->
            IF a = address
            THEN [address |-> address, github_repo |-> github_repo,
                  bns_name |-> bns_name, trust_level |-> trust_level,
                  total_airdrops_sats |-> 0, total_airdrops_stx |-> 0,
                  verification_count |->
                      IF HasRecord(a)
                      THEN verified_agents[a].verification_count + 1 ELSE 1,
                  first_seen |-> IF HasRecord(a) THEN verified_agents[a].first_seen
                                 ELSE now,
                  last_activity |-> now]
            ELSE verified_agents[a]],
     daily_airdrop_count |-> count + 1]

\* Variant: only an existing record is written; a new identity gets none.
record_verification_update_only(address, github_repo, bns_name, trust_level, count) ==
    [verified_agents |->
        [a \in DOMAIN verified_agents |->
            IF a = address
            THEN [verified_agents[a] EXCEPT !.verification_count = @ + 1,
                                            !.last_activity = now,
                                            !.trust_level = trust_level]
            ELSE verified_agents[a]],
     daily_airdrop_count |-> count + 1]

\* _record_verification: the ledger and the counter it leaves.
record_verification(address, github_repo, bns_name, trust_level, count) ==
    LET rec == IF HasRecord(address)
               THEN [verified_agents[address] EXCEPT
                        !.verification_count = @ + 1,
                        !.last_activity = now,
                        !.trust_level = trust_level]
               ELSE [address |-> address,
                     github_repo |-> github_repo,
                     bns_name |-> bns_name,
                     trust_level |-> trust_level,
                     total_airdrops_sats |-> 0,
                     total_airdrops_stx |-> 0,
                     verification_count |-> 1,
                     first_seen |-> now,
                     last_activity |-> now]
    IN  [verified_agents |->
            [a \in DOMAIN verified_agents \cup {address} |->
                IF a = address THEN rec ELSE verified_agents[a]],
         daily_airdrop_count |-> count + 1]

\* The sum of the values a function f takes on the set K.
RECURSIVE SumOver(_, _)
SumOver(f, K) ==
    IF K = {} THEN 0
    ELSE LET k == CHOOSE x \in K : TRUE IN f[k] + SumOver(f, K \ {k})

\* Variant: total_verified adds up the verifications, not the identities.
get_stats_verifications ==
    [total_verified |->
        SumOver([a \in DOMAIN verified_agents |->
                    verified_agents[a].verification_count], DOMAIN verified_agents),
     daily_airdrops |-> daily_airdrop_count,
     max_daily |-> MAX_AIRDROPS_PER_DAY,
     trust_distribution |->
        [n \in {TrustLevelName[level] : level \in TrustLevel} |->
            Cardinality({a \in DOMAIN verified_agents :
                           TrustLevelName[verified_agents[a].trust_level] = n})]]

\* get_stats: the dictionary it returns in the current state.
get_stats ==
    [total_verified |-> Cardinality(DOMAIN verified_agents),
     daily_airdrops |-> daily_airdrop_count,
     max_daily |-> MAX_AIRDROPS_PER_DAY,
     trust_distribution |->
        [n \in {TrustLevelName[level] : level \in TrustLevel} |->
            Cardinality({a \in DOMAIN verified_agents :
                           TrustLevelName[verified_agents[a].trust_level] = n})]]

\* Variant: the name check is required.
is_eligible_named(checks_passed) ==
    /\ Len(checks_passed) >= 3 /\ Contains(checks_passed, "min_balance")
    /\ Contains(checks_passed, "bns_verified")

\* Variant: the threshold of passed checks is one too low.
is_eligible_two(checks_passed) ==
    Len(checks_passed) >= 2 /\ Contains(checks_passed, "min_balance")

is_eligible(checks_passed) ==
    Len(checks_passed) >= 3 /\ Contains(checks_passed, "min_balance")

\* Variant: a level outside the table falls back to the BASIC entry.
airdrop_amounts_basic(trust_level) ==
    IF trust_level \in DOMAIN AIRDROP_AMOUNTS THEN AIRDROP_AMOUNTS[trust_level]
    ELSE AIRDROP_AMOUNTS[BASIC]

airdrop_amounts(trust_level) ==
    IF trust_level \in DOMAIN AIRDROP_AMOUNTS THEN AIRDROP_AMOUNTS[trust_level]
    ELSE [sbtc_sats |-> 0, stx_ustx |-> 0]

\* Variant: the amount is handed out whether or not the request is eligible.
granted_always(eligible, amount) == amount

\* `amount if eligible else 0`, lines 187-188.
granted(eligible, amount) == IF eligible THEN amount ELSE 0

VerificationResult(success, passed, failed, tl, sats, stx, reason) ==
    [success |-> success, checks_passed |-> passed, checks_failed |-> failed,
     trust_level |-> tl, eligible_for_airdrop |-> success,
     airdrop_amount_sats |-> sats, airdrop_amount_stx |-> stx,
     reason |-> reason]

\* Variant: the reason handed in is dropped.
fail_result_no_reason(passed, failed, reason) ==
    [success |-> FALSE, checks_passed |-> passed, checks_failed |-> failed,
     trust_level |-> UNKNOWN, eligible_for_airdrop |-> FALSE,
     airdrop_amount_sats |-> 0, airdrop_amount_stx |-> 0, reason |-> ""]

fail_result(passed, failed, reason) ==
    [success |-> FALSE, checks_passed |-> passed, checks_failed |-> failed,
     trust_level |-> UNKNOWN, eligible_for_airdrop |-> FALSE,
     airdrop_amount_sats |-> 0, airdrop_amount_stx |-> 0, reason |-> reason]

(* ------------------------------ state ---------------------------------- *)
\* One coroutine frame of verify_agent as the call creates it: its arguments
\* and locals, and the await it is suspended at (pc).  overtaken is history:
\* another request for the same identity was committed while this frame was
\* in flight.  req is the bag of the frames in flight.
NewFrame ==
    [pc |-> "called", agent_address |-> "", github_repo |-> None,
     mcp_endpoint |-> None, bns_name |-> None,
     checks_passed |-> <<>>, checks_failed |-> <<>>, balance |-> 0,
     overtaken |-> FALSE]

\* ret is the result a verify_agent call has just returned, until its caller
\* resumes (call is FALSE when no result is pending), with the frame that
\* returned it and what that frame saw when it reached the rate limiter:
\* limiter is "none" when it never got there.
NoRet ==
    [call |-> FALSE, frame |-> NewFrame, result |-> fail_result(<<>>, <<>>, ""),
     limiter |-> "none", level |-> UNKNOWN, daily_seen |-> 0, reset_seen |-> 0,
     count_seen |-> 0, last_seen |-> -1]

CountOf(address) ==
    IF HasRecord(address) THEN verified_agents[address].verification_count ELSE 0

LogOf(address) == IF address \in DOMAIN succLog THEN succLog[address] ELSE <<>>

LogAppend(address) ==
    [a \in DOMAIN succLog \cup {address} |->
        IF a = address THEN Append(LogOf(a), now) ELSE LogOf(a)]

\* Before any call of verify_and_airdrop; an Optional value is the empty
\* sequence for None and a sequence of one element otherwise.
NoResponse == [error |-> None, target |-> None, verified |-> FALSE,
               trust_level |-> "UNKNOWN", reason |-> "", airdrop |-> <<>>]
\* Before any call into the DAO package.
NoDaoRet == [op |-> "none", dao_id |-> 0, success |-> FALSE, message |-> "",
             raised |-> FALSE]

\* History: the rewards granted to the identity so far, and with one more.
RewardOf(address) ==
    IF address \in DOMAIN rewarded THEN rewarded[address]
    ELSE [sbtc_sats |-> 0, stx_ustx |-> 0]
RewardAdd(address, sats, ustx) ==
    [a \in DOMAIN rewarded \cup {address} |->
        IF a = address
        THEN [sbtc_sats |-> RewardOf(a).sbtc_sats + sats,
              stx_ustx |-> RewardOf(a).stx_ustx + ustx]
        ELSE rewarded[a]]

Init ==
    /\ verified_agents = <<>>
    /\ daily_airdrop_count = 0
    /\ last_reset = 0
    /\ now = 0
    /\ req = EmptyBag
    /\ ret = NoRet
    /\ succLog = <<>>
    /\ capDenied = {}
    /\ rewarded = <<>>
    /\ identity = None
    /\ airdrop_history = <<>>
    /\ response = NoResponse
    /\ proposals = <<>>
    /\ dao_ret = NoDaoRet

(* ------------------------------ actions -------------------------------- *)
\* The frames in flight other than f.
Others(f) == req (-) SetToBag({f})

\* The frames of `address` among B learn that a commit overtook them.
Overtake(B, address) ==
    LET mark(g) == IF g.agent_address = address
                   THEN [g EXCEPT !.overtaken = TRUE] ELSE g
    IN  BagOfAll(mark, B)

\* The frame s ends with `result`; rest are the frames still in flight.
Finish(rest, s, result, seen, committed) ==
    /\ req' = IF committed THEN Overtake(rest, s.agent_address) ELSE rest
    /\ ret' = [seen EXCEPT !.call = TRUE, !.frame = s, !.result = result]

\* History: the limiter refused, the counter stood at the cap, and neither
\* the cooldown nor the per-address limit stood in the identity's way.
OnlyTheCapDenies(address, rl) ==
    /\ ~rl.allowed
    /\ rl.daily_airdrop_count >= MAX_AIRDROPS_PER_DAY
    /\ HasRecord(address) =>
          /\ now - verified_agents[address].last_activity >= COOLDOWN_HOURS
          /\ verified_agents[address].verification_count < MAX_AIRDROPS_PER_ADDRESS

\* verify_agent, lines 163-190: everything after the last await.  s is the
\* frame with the check lists as the pipeline left them.
Decide(rest, s) ==
    LET address == s.agent_address
        trust_level == calculate_trust_level(s.checks_passed, address)
        rl == check_rate_limits(address)
        eligible == is_eligible(s.checks_passed)
        amounts == airdrop_amounts(trust_level)
        rv == record_verification(address, s.github_repo, s.bns_name,
                                  trust_level, rl.daily_airdrop_count)
        seen == [NoRet EXCEPT !.level = trust_level,
                              !.limiter = IF rl.allowed THEN "allow" ELSE "deny",
                              !.daily_seen = daily_airdrop_count,
                              !.reset_seen = last_reset,
                              !.count_seen = CountOf(address),
                              !.last_seen = IF HasRecord(address)
                                            THEN verified_agents[address].last_activity
                                            ELSE -1]
    IN  /\ last_reset' = rl.last_reset
        /\ capDenied' = IF OnlyTheCapDenies(address, rl) THEN capDenied \cup {address}
                        ELSE capDenied
        /\ rewarded' = IF rl.allowed /\ eligible
                       THEN RewardAdd(address, granted(eligible, amounts.sbtc_sats),
                                      granted(eligible, amounts.stx_ustx))
                       ELSE rewarded
        /\ UNCHANGED <<agentVars, daoVars>>
        /\ IF ~rl.allowed
           THEN /\ Finish(rest, s, fail_result(s.checks_passed, s.checks_failed,
                                     "Rate limit exceeded. Try again later."),
                          seen, FALSE)
                /\ daily_airdrop_count' = rl.daily_airdrop_count
                /\ UNCHANGED <<verified_agents, succLog>>
           ELSE /\ Finish(rest, s, VerificationResult(eligible, s.checks_passed,
                            s.checks_failed, trust_level,
                            granted(eligible, amounts.sbtc_sats),
                            granted(eligible, amounts.stx_ustx),
                            IF eligible THEN "Verification passed"
                                        ELSE "Insufficient checks passed"),
                          seen, eligible)
                /\ IF eligible
                   THEN /\ verified_agents' = rv.verified_agents
                        /\ daily_airdrop_count' = rv.daily_airdrop_count
                        /\ succLog' = LogAppend(address)
                   ELSE /\ daily_airdrop_count' = rl.daily_airdrop_count
                        /\ UNCHANGED <<verified_agents, succLog>>

\* Variant: the endpoint check is made before the repository check.
NextAwait_endpoint_first(s, after) ==
    IF after = "balance" /\ Truthy(s.mcp_endpoint) THEN "endpoint"
    ELSE IF after \in {"balance", "endpoint"} /\ Truthy(s.github_repo) THEN "github"
    ELSE IF after \in {"balance", "github", "endpoint"} /\ Truthy(s.bns_name) THEN "bns"
    ELSE "decide"

\* Variant: a request that is ready to decide waits for the requests that
\* are in flight beside it.
NextAwait_lock(s, after) ==
    IF after = "balance" /\ Truthy(s.github_repo) THEN "github"
    ELSE IF after \in {"balance", "github"} /\ Truthy(s.mcp_endpoint) THEN "endpoint"
    ELSE IF after \in {"balance", "github", "endpoint"} /\ Truthy(s.bns_name) THEN "bns"
    ELSE IF BagCardinality(req) > 1 THEN "lock"
    ELSE "decide"

\* The await the frame suspends at next, after the check named by `after`.
NextAwait(s, after) ==
    IF after = "balance" /\ Truthy(s.github_repo) THEN "github"
    ELSE IF after \in {"balance", "github"} /\ Truthy(s.mcp_endpoint) THEN "endpoint"
    ELSE IF after \in {"balance", "github", "endpoint"} /\ Truthy(s.bns_name) THEN "bns"
    ELSE "decide"

\* Run the frame on from the check `after` to its next await or to its end.
Proceed(rest, s, after) ==
    IF NextAwait(s, after) = "decide"
    THEN Decide(rest, s)
    ELSE /\ req' = rest (+) SetToBag({[s EXCEPT !.pc = NextAwait(s, after)]})
         /\ ret' = NoRet
         /\ UNCHANGED <<verified_agents, daily_airdrop_count, last_reset, succLog, capDenied, rewarded, agentVars, daoVars>>

\* verify_agent is called: lines 120-131, up to the first await.
Start(address, github_repo, mcp_endpoint, bns_name) ==
    /\ ~ret.call
    /\ LET s == [NewFrame EXCEPT !.agent_address = address,
                                !.github_repo = github_repo,
                                !.mcp_endpoint = mcp_endpoint,
                                !.bns_name = bns_name]
       IN  IF is_valid_stacks_address(address)
           THEN /\ req' = req (+) SetToBag({[s EXCEPT !.pc = "balance",
                                    !.checks_passed = <<"valid_address">>]})
                /\ ret' = NoRet
           ELSE Finish(req, [s EXCEPT !.checks_failed = <<"invalid_address">>],
                       fail_result(<<>>, <<"invalid_address">>,
                                   "Invalid Stacks address"),
                       NoRet, FALSE)
    /\ UNCHANGED <<verified_agents, daily_airdrop_count, last_reset, now, succLog, capDenied, rewarded, agentVars, daoVars>>

\* _check_stx_balance returns: lines 131-139 and on to the next await.
BalanceReturns(f, resp) ==
    /\ ~ret.call
    /\ f.pc = "balance"
    /\ LET balance == check_stx_balance(resp)
           s == [f EXCEPT !.balance = balance]
       IN  IF stake_ok(balance)
           THEN Proceed(Others(f),
                        [s EXCEPT !.checks_passed = Append(@, "min_balance")],
                        "balance")
           ELSE /\ Finish(Others(f),
                          [s EXCEPT !.checks_failed =
                                          Append(@, "insufficient_balance")],
                          fail_result(s.checks_passed,
                              Append(s.checks_failed, "insufficient_balance"),
                              "Need at least 0.1 STX"),
                          NoRet, FALSE)
                /\ UNCHANGED <<verified_agents, daily_airdrop_count, last_reset,
                               succLog, capDenied, rewarded, agentVars, daoVars>>
    /\ UNCHANGED now

\* _verify_github_mcp returns: lines 143-147 and on.
GithubReturns(f, resp) ==
    /\ ~ret.call
    /\ f.pc = "github"
    /\ IF verify_github_mcp(resp)
       THEN Proceed(Others(f), [f EXCEPT !.checks_passed = Append(@, "github_mcp")],
                    "github")
       ELSE Proceed(Others(f), [f EXCEPT !.checks_failed =
                                        Append(@, "github_mcp_missing")],
                    "github")
    /\ UNCHANGED now

\* _verify_mcp_endpoint returns: lines 151-155 and on.
EndpointReturns(f, resp) ==
    /\ ~ret.call
    /\ f.pc = "endpoint"
    /\ IF verify_mcp_endpoint(resp)
       THEN Proceed(Others(f), [f EXCEPT !.checks_passed = Append(@, "mcp_endpoint")],
                    "endpoint")
       ELSE Proceed(Others(f), [f EXCEPT !.checks_failed =
                                        Append(@, "mcp_endpoint_down")],
                    "endpoint")
    /\ UNCHANGED now

\* _verify_bns_ownership returns: lines 159-161 and on.
BnsReturns(f, resp) ==
    /\ ~ret.call
    /\ f.pc = "bns"
    /\ IF verify_bns_ownership(f.agent_address, resp)
       THEN Proceed(Others(f), [f EXCEPT !.checks_passed = Append(@, "bns_verified")],
                    "bns")
       ELSE Proceed(Others(f), f, "bns")
    /\ UNCHANGED now

\* The caller that awaited verify_agent resumes with the result.
Deliver ==
    /\ ret.call
    /\ ret' = NoRet
    /\ UNCHANGED <<verified_agents, daily_airdrop_count, last_reset, now, req, succLog,
                   capDenied, rewarded, agentVars, daoVars>>

\* datetime.now() moves on.
Tick(limit) ==
    /\ ~ret.call
    /\ \E d \in ClockSteps : now + d <= limit /\ now' = now + d
    /\ ret' = NoRet
    /\ UNCHANGED <<verified_agents, daily_airdrop_count, last_reset, req, succLog,
                   capDenied, rewarded, agentVars, daoVars>>

\* A caller may start a request while fewer than n are in flight.
Calls(n, A, G, E, B) ==
    /\ BagCardinality(req) < n
    /\ \E a \in A, g \in G, e \in E, b \in B : Start(a, g, e, b)

Frames == BagToSet(req)

(* Spec: concurrent requests for two identities (and malformed ones), each  *)
(* with repository and endpoint evidence.                                   *)
Next ==
    \/ Calls(NReq, ValidAddrs \cup InvalidAddrs, {"owner/repo"}, McpEndpoints \ {None}, {None})
    \/ \E f \in Frames, resp \in BalanceResponses : BalanceReturns(f, resp)
    \/ \E f \in Frames, resp \in GithubResponses : GithubReturns(f, resp)
    \/ \E f \in Frames, resp \in EndpointResponses : EndpointReturns(f, resp)
    \/ Deliver
    \/ Tick(MaxTime)

Spec == Init /\ [][Next]_vars

(* SpecSeq: one request at a time for one identity (and malformed ones),    *)
(* with every combination of evidence.                                      *)
NextSeq ==
    \/ Calls(1, {AddrA} \cup InvalidAddrs, GithubRepos, McpEndpoints, BnsNames)
    \/ \E f \in Frames, resp \in BalanceResponses : BalanceReturns(f, resp)
    \/ \E f \in Frames, resp \in GithubResponses : GithubReturns(f, resp)
    \/ \E f \in Frames, resp \in EndpointResponses : EndpointReturns(f, resp)
    \/ \E f \in Frames : \E resp \in BnsResponses(f.agent_address) : BnsReturns(f, resp)
    \/ Deliver
    \/ Tick(MaxTimeSeq)

SpecSeq == Init /\ [][NextSeq]_vars

(* SpecLife: one identity verified again and again, one request at a time, *)
(* over its whole allotment and the cooldown after it.                      *)
NextLife ==
    \/ Calls(1, {AddrA}, {"owner/repo"}, McpEndpoints, {None})
    \/ \E f \in Frames, resp \in BalanceResponses : BalanceReturns(f, resp)
    \/ \E f \in Frames, resp \in GithubResponses : GithubReturns(f, resp)
    \/ \E f \in Frames, resp \in EndpointResponses : EndpointReturns(f, resp)
    \/ Deliver
    \/ Tick(MaxTimeLife)

SpecLife == Init /\ [][NextLife]_vars

(* SpecCap: identities that are new to the ledger arrive one after another  *)
(* (the next one may call once every earlier one has a record or a request  *)
(* in flight; identities are interchangeable, so the order loses nothing),  *)
(* each with repository evidence, in one burst that reaches the daily cap:  *)
(* requests overlap only where those in flight could together overrun the   *)
(* cap; the clock moves before the first commit and again once the counter  *)
(* is at the cap, and only while no request is in flight.                   *)
InFlight(address) == \E f \in Frames : f.agent_address = address

CallsCap ==
    /\ BagCardinality(req) < NReq
    /\ req = EmptyBag \/ daily_airdrop_count + NReq > MAX_AIRDROPS_PER_DAY
    /\ \E i \in 1..NCap :
        /\ ~HasRecord(CapAddrs[i])
        /\ \A j \in 1..(i - 1) : HasRecord(CapAddrs[j]) \/ InFlight(CapAddrs[j])
        /\ Start(CapAddrs[i], "owner/repo", None, None)

NextCap ==
    \/ CallsCap
    \/ \E f \in Frames, resp \in BalanceResponses : BalanceReturns(f, resp)
    \/ \E f \in Frames, resp \in GithubResponses : GithubReturns(f, resp)
    \/ Deliver
    \/ /\ req = EmptyBag
       /\ DOMAIN verified_agents = {} \/ daily_airdrop_count >= MAX_AIRDROPS_PER_DAY
       /\ Tick(MaxTimeCap)

SpecCap == Init /\ [][NextCap]_vars

(* SpecSkew: SpecLife under a wall clock that may also be set back:         *)
(* datetime.now() is not monotonic.                                         *)
Rewind ==
    /\ ~ret.call
    /\ \E d \in ClockSteps : now - d >= 0 /\ now' = now - d
    /\ UNCHANGED <<verified_agents, daily_airdrop_count, last_reset, req, ret,
                   succLog, capDenied, rewarded, agentVars, daoVars>>

NextSkew ==
    \/ Calls(1, {AddrA}, {"owner/repo"}, McpEndpoints, {None})
    \/ \E f \in Frames, resp \in BalanceResponses : BalanceReturns(f, resp)
    \/ \E f \in Frames, resp \in GithubResponses : GithubReturns(f, resp)
    \/ \E f \in Frames, resp \in EndpointResponses : EndpointReturns(f, resp)
    \/ Deliver
    \/ Tick(MaxTimeSkew)
    \/ Rewind

SpecSkew == Init /\ [][NextSkew]_vars

(* SpecFault: one identity, one request at a time, with every combination   *)
(* of evidence, against oracles that either pass the check or raise: the    *)
(* request fails to connect or times out (httpx raises an Exception).       *)
Raises(resp) == resp.kind = "exception"
GhRaises(resp) == resp.exc /= "none"

NextFault ==
    \/ Calls(1, {AddrA}, GithubRepos, McpEndpoints, BnsNames)
    \/ \E f \in Frames :
          \E resp \in {r \in BalanceResponses :
                          Raises(r) \/ stake_ok(check_stx_balance(r))} :
              BalanceReturns(f, resp)
    \/ \E f \in Frames :
          \E resp \in {r \in GithubResponses : GhRaises(r) \/ verify_github_mcp(r)} :
              GithubReturns(f, resp)
    \/ \E f \in Frames :
          \E resp \in {r \in EndpointResponses : Raises(r) \/ verify_mcp_endpoint(r)} :
              EndpointReturns(f, resp)
    \/ \E f \in Frames :
          \E resp \in {r \in BnsResponses(f.agent_address) :
                          Raises(r) \/ verify_bns_ownership(f.agent_address, r)} :
              BnsReturns(f, resp)
    \/ Deliver
    \/ Tick(MaxTimeFault)

SpecFault == Init /\ [][NextFault]_vars

(* SpecLive: concurrent requests, at most one per identity at a time, with  *)
(* every combination of evidence, under the scheduling the event loop and   *)
(* the oracles' timeouts give: an oracle call that is awaited returns (or    *)
(* raises) sooner or later, and a caller whose result is ready resumes.     *)
EvidenceLive ==
    {<<None, None, None>>, <<None, "https://mcp.example", None>>,
     <<"owner/repo", "https://mcp.example", "agent.btc">>}

OracleReturns(a) ==
    \E f \in Frames :
        /\ f.agent_address = a
        /\ \/ \E resp \in BalanceResponses : BalanceReturns(f, resp)
           \/ \E resp \in GithubResponses : GithubReturns(f, resp)
           \/ \E resp \in EndpointResponses : EndpointReturns(f, resp)
           \/ \E resp \in BnsResponses(a) : BnsReturns(f, resp)

CallsLive ==
    /\ BagCardinality(req) < NReq
    /\ \E a \in ValidAddrs, ev \in EvidenceLive :
          ~InFlight(a) /\ Start(a, ev[1], ev[2], ev[3])

NextLive ==
    \/ CallsLive
    \/ \E a \in ValidAddrs : OracleReturns(a)
    \/ Deliver
    \/ Tick(MaxTimeLive)

SpecLive ==
    /\ Init /\ [][NextLive]_vars
    /\ WF_vars(Deliver)
    /\ \A a \in ValidAddrs : SF_vars(OracleReturns(a))

(* SpecRecord: _record_verification called on its own, as the statistics   *)
(* tests call it, with any evidence and any level the pipeline can compute.*)
RecordVerificationCalled(address, github_repo, bns_name, trust_level) ==
    /\ ~ret.call
    /\ daily_airdrop_count < MaxCommits
    /\ LET r == record_verification(address, github_repo, bns_name, trust_level,
                                    daily_airdrop_count)
       IN  /\ verified_agents' = r.verified_agents
           /\ daily_airdrop_count' = r.daily_airdrop_count
    /\ UNCHANGED <<last_reset, now, req, ret, succLog, capDenied, rewarded, agentVars, daoVars>>

NextRecord ==
    \/ \E a \in ValidAddrs, g \in GithubRepos, b \in BnsNames :
          \E tl \in {BASIC, TRUSTED, ESTABLISHED} :
             RecordVerificationCalled(a, g, b, tl)
    \/ Tick(MaxTimeRecord)

SpecRecord == Init /\ [][NextRecord]_vars

(* SpecAddr: verify_agent called, one call at a time and without optional  *)
(* evidence, with address strings of every length up to MaxPad characters  *)
(* after each of a set of prefixes: the two network prefixes, their        *)
(* lower-case and swapped forms, another version byte, a hex prefix, a     *)
(* single letter and none.                                                 *)
RECURSIVE Pad(_)
Pad(k) == IF k = 0 THEN "" ELSE "1" \o Pad(k - 1)

Prefixes == {"SP", "ST", "SM", "sp", "PS", "0x", "S", ""}
Addresses == {p \o Pad(k) : p \in Prefixes, k \in 0..MaxPad}

NextAddr ==
    \/ Calls(1, Addresses, {None}, {None}, {None})
    \/ \E f \in Frames : \E resp \in BalanceResponses : BalanceReturns(f, resp)
    \/ Deliver

SpecAddr == Init /\ [][NextAddr]_vars

(* SpecBlind: SpecLife over a ledger whose stored trust_level fields may be *)
(* anything: between requests, the trust_level of a record is replaced by  *)
(* any member of TrustLevel, which yields every ledger that differs from   *)
(* the one the requests built only in stored trust levels.                 *)
TrustLevelStored(address, trust_level) ==
    /\ ~ret.call
    /\ HasRecord(address)
    /\ verified_agents[address].trust_level /= trust_level
    /\ verified_agents' =
          [verified_agents EXCEPT ![address].trust_level = trust_level]
    /\ UNCHANGED <<daily_airdrop_count, last_reset, now, req, ret, succLog, capDenied, rewarded, agentVars, daoVars>>

NextBlind ==
    \/ Calls(1, {AddrA}, {"owner/repo"}, McpEndpoints, {None})
    \/ \E f \in Frames, resp \in BalanceResponses : BalanceReturns(f, resp)
    \/ \E f \in Frames, resp \in GithubResponses : GithubReturns(f, resp)
    \/ \E f \in Frames, resp \in EndpointResponses : EndpointReturns(f, resp)
    \/ Deliver
    \/ Tick(MaxTimeBlind)
    \/ \E a \in ValidAddrs, tl \in TrustLevel : TrustLevelStored(a, tl)

SpecBlind == Init /\ [][NextBlind]_vars

(* SpecTrust: _calculate_trust_level called on its own, as the unit tests   *)
(* call it: against a ledger whose records were written directly, with any  *)
(* list of passed checks.                                                   *)
CheckNames == <<"a", "b", "c", "d", "e", "f", "g">>
CheckLists == {SubSeq(CheckNames, 1, n) : n \in 0..MaxChecks}

\* A test writes verified_agents[address] = AgentRecord(...) with
\* verification_count preset.
Preset(address, count) ==
    /\ ~ret.call
    /\ verified_agents' =
          [a \in DOMAIN verified_agents \cup {address} |->
              IF a = address
              THEN [address |-> address, github_repo |-> None, bns_name |-> None,
                    trust_level |-> BASIC, total_airdrops_sats |-> 0,
                    total_airdrops_stx |-> 0, verification_count |-> count,
                    first_seen |-> now, last_activity |-> now]
              ELSE verified_agents[a]]
    /\ UNCHANGED <<daily_airdrop_count, last_reset, now, req, ret, succLog, capDenied, rewarded, agentVars, daoVars>>

\* _calculate_trust_level(checks_passed, address) is called and returns.
TrustLevelCalled(address, checks_passed) ==
    /\ ~ret.call
    /\ ret' = [NoRet EXCEPT
                 !.call = TRUE,
                 !.frame = [NewFrame EXCEPT !.agent_address = address,
                                            !.checks_passed = checks_passed],
                 !.level = calculate_trust_level(checks_passed, address),
                 !.count_seen = CountOf(address)]
    /\ UNCHANGED <<verified_agents, daily_airdrop_count, last_reset, now, req,
                   succLog, capDenied, rewarded, agentVars, daoVars>>

NextTrust ==
    \/ \E a \in ValidAddrs, n \in 1..MaxPreset : Preset(a, n)
    \/ \E a \in ValidAddrs, c \in CheckLists : TrustLevelCalled(a, c)
    \/ Deliver

SpecTrust == Init /\ [][NextTrust]_vars

(* ------------------------------ properties ----------------------------- *)
Returned == ret.call
Res      == ret.result
Caller   == ret.frame.agent_address
ReachedLimiter == ret.call /\ ret.limiter /= "none"

\* The counter as the limiter tested it: after the lazy reset, if one was due.
TestedCount == IF now - ret.reset_seen > 24 THEN 0 ELSE ret.daily_seen

\* Successful verifications of the identities in S at times lo..hi.
RECURSIVE CountIn(_, _, _)
CountIn(S, lo, hi) ==
    IF S = {} THEN 0
    ELSE LET a == CHOOSE x \in S : TRUE
         IN  Cardinality({i \in 1..Len(succLog[a]) :
                            lo <= succLog[a][i] /\ succLog[a][i] <= hi})
             + CountIn(S \ {a}, lo, hi)

\* C1: of the requests for one identity that run concurrently, at most one
\* succeeds while a single success is due: an identity never has two
\* successes at one clock reading, a request that a concurrent commit for its
\* identity overtook succeeds only a full cooldown after that commit, and
\* verification_count counts exactly the successes.
C1_OneSuccessPerBatch ==
    /\ \A a \in DOMAIN succLog :
          /\ \A i, j \in 1..Len(succLog[a]) : i /= j => succLog[a][i] /= succLog[a][j]
          /\ CountOf(a) = Len(succLog[a])
    /\ Returned /\ Res.success /\ ret.frame.overtaken
          => now - ret.last_seen >= COOLDOWN_HOURS

\* C1 witness: the identity's cooldown had expired, two requests for it were
\* in flight, one committed, and the other, all its checks passed, is denied.
C1_Witness ==
    /\ Returned /\ ~Res.success /\ ret.frame.overtaken
    /\ ret.limiter = "deny" /\ Len(Res.checks_passed) = 4
    /\ ret.count_seen = 2 /\ ret.last_seen = now /\ now >= COOLDOWN_HOURS

\* C2: the daily counter never exceeds MAX_AIRDROPS_PER_DAY, and a request
\* that reaches the limiter with the counter at the cap is denied.
C2_DailyCap ==
    /\ daily_airdrop_count <= MAX_AIRDROPS_PER_DAY
    /\ ReachedLimiter /\ TestedCount >= MAX_AIRDROPS_PER_DAY
          => ret.limiter = "deny" /\ ~Res.success

\* C2 witness: two requests of new identities raced for the last slot; the
\* counter is at the cap and the loser, its checks passed, is denied with
\* nothing but the cap against it.
C2_Witness ==
    /\ daily_airdrop_count = MAX_AIRDROPS_PER_DAY
    /\ Returned /\ ret.limiter = "deny" /\ ret.daily_seen = MAX_AIRDROPS_PER_DAY
    /\ ret.count_seen = 0 /\ Len(Res.checks_passed) = 3
    /\ Caller \in capDenied
    /\ \E a \in DOMAIN succLog : a /= Caller /\ succLog[a] = <<now>>

\* C3: two successes of one identity are at least COOLDOWN_HOURS apart; a
\* request less than COOLDOWN_HOURS after last_activity is denied, and one
\* made COOLDOWN_HOURS or more after it is not stopped by the cooldown.
C3_Cooldown ==
    /\ \A a \in DOMAIN succLog : \A i \in 1..(Len(succLog[a]) - 1) :
          succLog[a][i + 1] - succLog[a][i] >= COOLDOWN_HOURS
    /\ ReachedLimiter /\ ret.last_seen >= 0 /\ now - ret.last_seen < COOLDOWN_HOURS
          => ret.limiter = "deny" /\ ~Res.success
    /\ ReachedLimiter /\ ret.last_seen >= 0 /\ now - ret.last_seen >= COOLDOWN_HOURS
          /\ ret.count_seen < MAX_AIRDROPS_PER_ADDRESS
          /\ TestedCount < MAX_AIRDROPS_PER_DAY
          => ret.limiter = "allow"

\* C3 witness: a second success exactly COOLDOWN_HOURS after the first.
C3_Witness ==
    /\ Returned /\ Res.success /\ ret.last_seen >= 0
    /\ now - ret.last_seen = COOLDOWN_HOURS
    /\ Len(succLog[Caller]) = 2

\* C4: no record's verification_count exceeds MAX_AIRDROPS_PER_ADDRESS, and a
\* request of an identity that has used its allotment is denied.
C4_LifetimeCap ==
    /\ \A a \in DOMAIN verified_agents :
          /\ verified_agents[a].verification_count <= MAX_AIRDROPS_PER_ADDRESS
          /\ Len(succLog[a]) <= MAX_AIRDROPS_PER_ADDRESS
    /\ ReachedLimiter /\ ret.count_seen >= MAX_AIRDROPS_PER_ADDRESS
          => ret.limiter = "deny" /\ ~Res.success

\* C4 witness: five successes, then a request with every check passed, made
\* after the cooldown has expired, is denied.
C4_Witness ==
    /\ Returned /\ ret.limiter = "deny" /\ ret.count_seen = MAX_AIRDROPS_PER_ADDRESS
    /\ now - ret.last_seen >= COOLDOWN_HOURS
    /\ Len(Res.checks_passed) = 4 /\ Res.checks_failed = <<>>
    /\ Len(succLog[Caller]) = MAX_AIRDROPS_PER_ADDRESS

\* C5 as claimed: any 24 consecutive hours hold at most MAX_AIRDROPS_PER_DAY
\* successful verifications.
C5_RollingWindow ==
    \A t \in 0..now :
        CountIn(DOMAIN succLog, t, t + 23) <= MAX_AIRDROPS_PER_DAY

\* C5 amended: the successful verifications since the window start
\* (last_reset) number at most MAX_AIRDROPS_PER_DAY, and as many as the
\* counter says.
C5_FixedWindow ==
    /\ CountIn(DOMAIN succLog, last_reset, now) <= MAX_AIRDROPS_PER_DAY
    /\ CountIn(DOMAIN succLog, last_reset, now) = daily_airdrop_count

\* C5 witness: a window that is full.
C5_Witness ==
    /\ CountIn(DOMAIN succLog, last_reset, now) = MAX_AIRDROPS_PER_DAY
    /\ last_reset < now

\* C6: a request that reaches the limiter more than 24h after the window
\* start finds the counter reset and the window restarted at now before the
\* cap is tested: the cap does not stop it, whatever the counter was.
C6_LazyReset ==
    ReachedLimiter /\ now - ret.reset_seen > 24
        => /\ last_reset = now
           /\ daily_airdrop_count = IF Res.success THEN 1 ELSE 0
           /\ ret.count_seen = 0 => ret.limiter = "allow"

\* C6 witness: an identity that the cap alone had denied succeeds once the
\* window has elapsed, the counter having stood at the cap.
C6_Witness ==
    /\ Returned /\ Res.success /\ Caller \in capDenied
    /\ ret.daily_seen = MAX_AIRDROPS_PER_DAY /\ now - ret.reset_seen > 24
    /\ daily_airdrop_count = 1

\* C7: the counter falls only in a limiter step taken more than 24h after
\* the window start, which restarts the window at now; every limiter step
\* that late does so; in every other step the counter stays or, exactly when
\* a verification is committed, grows by 1.
C7_CounterSteps ==
    [][LET late == now - last_reset > 24
           base == IF last_reset' /= last_reset THEN 0 ELSE daily_airdrop_count
       IN  /\ last_reset' /= last_reset => late /\ last_reset' = now
           /\ daily_airdrop_count' < daily_airdrop_count => last_reset' /= last_reset
           /\ ret'.call /\ ret'.limiter /= "none" /\ ret' /= ret /\ late
                 => last_reset' = now
           /\ daily_airdrop_count' = base + (IF succLog' /= succLog THEN 1 ELSE 0)
      ]_vars

\* C7 witness: a reset has just taken the counter down from the cap.
C7_Witness ==
    /\ ReachedLimiter /\ ret.daily_seen = MAX_AIRDROPS_PER_DAY
    /\ daily_airdrop_count = 0 /\ last_reset = now

\* C8: success, which is eligible_for_airdrop, holds exactly when the limiter
\* allowed the request, the stake check passed and at least 3 checks passed.
C8_Eligibility ==
    Returned =>
        /\ Res.success = Res.eligible_for_airdrop
        /\ Res.success <=>
              /\ ret.limiter = "allow"
              /\ Contains(Res.checks_passed, "min_balance")
              /\ Len(Res.checks_passed) >= 3

\* C8 witnesses the threshold: success with exactly 3 checks passed.
C8_Witness ==
    /\ Returned /\ Res.success /\ Len(Res.checks_passed) = 3
    /\ ret.limiter = "allow"

\* The format rule, as the claim states it.
FormatFails(address) ==
    \/ Len(address) < 30
    \/ SubSeq(address, 1, 2) \notin {"SP", "ST"}

\* C9: an identity that fails the format check gets a normal result with
\* only the format failure recorded, ineligible, both rewards 0; no oracle
\* and no limiter is consulted.
C9_FormatTerminal ==
    Returned /\ FormatFails(Caller) =>
        /\ Res.checks_passed = <<>>
        /\ Res.checks_failed = <<"invalid_address">>
        /\ ~Res.success /\ ~Res.eligible_for_airdrop
        /\ Res.airdrop_amount_sats = 0 /\ Res.airdrop_amount_stx = 0
        /\ ret.limiter = "none"

\* C9 witness: a malformed identity with every evidence supplied, against a
\* ledger that is not empty.
C9_Witness ==
    /\ Returned /\ Caller = AddrShort /\ ~Res.success
    /\ Truthy(ret.frame.github_repo) /\ Truthy(ret.frame.mcp_endpoint)
    /\ Truthy(ret.frame.bns_name)
    /\ DOMAIN verified_agents /= {}

\* C10: a balance below min_stx_balance gives insufficient_balance, no
\* success, no eligibility and no reward, whatever evidence comes with it; no
\* rewarded result lacks min_balance.
C10_StakeTerminal ==
    /\ Returned /\ ~FormatFails(Caller) /\ ret.frame.balance < min_stx_balance
          => /\ Contains(Res.checks_failed, "insufficient_balance")
             /\ ~Res.success /\ ~Res.eligible_for_airdrop
             /\ Res.airdrop_amount_sats = 0 /\ Res.airdrop_amount_stx = 0
    /\ Returned /\ (Res.airdrop_amount_sats > 0 \/ Res.airdrop_amount_stx > 0)
          => Contains(Res.checks_passed, "min_balance")

\* C10 witness: one microSTX short, every evidence supplied.
C10_Witness ==
    /\ Returned /\ ret.frame.balance = min_stx_balance - 1
    /\ Res.checks_failed = <<"insufficient_balance">>
    /\ Truthy(ret.frame.github_repo) /\ Truthy(ret.frame.mcp_endpoint)
    /\ Truthy(ret.frame.bns_name)

\* The trust rule, as the claim states it: count is the identity's
\* verification_count, 0 when it has no record; n the number of passed checks.
TrustRule(count, n) ==
    IF count >= 5 THEN ESTABLISHED
    ELSE IF count >= 2 THEN TRUSTED
    ELSE IF n >= 4 THEN BASIC
    ELSE IF n >= 2 THEN PENDING
    ELSE UNKNOWN

\* C11: the level _calculate_trust_level resolves is ESTABLISHED for a record
\* with verification_count >= 5, else TRUSTED for one with count >= 2, else
\* BASIC for 4 or more passed checks, PENDING for 2 or more, UNKNOWN
\* otherwise; and the call changes neither the ledger nor the limiter.
C11_TrustRule ==
    [][ret'.call /\ ~ret.call =>
          /\ ret'.level = TrustRule(ret'.count_seen, Len(ret'.frame.checks_passed))
          /\ UNCHANGED <<verified_agents, daily_airdrop_count, last_reset>>
      ]_vars

\* C11 witness: a record with verification_count 5 and a single passed check
\* resolve to ESTABLISHED.
C11_Witness ==
    /\ Returned /\ ret.level = ESTABLISHED
    /\ Len(ret.frame.checks_passed) = 1
    /\ ret.count_seen = 5
    /\ verified_agents[Caller].verification_count = 5

\* C12: an eligible result reports the resolved level and carries exactly
\* that level's AIRDROP_AMOUNTS entry, and zero for UNKNOWN and PENDING; a
\* first verification with the minimum balance exactly and repository and
\* endpoint evidence passing has 4 passed checks, resolves to BASIC and is
\* granted the BASIC amounts.
C12_RewardTable ==
    Returned /\ Res.eligible_for_airdrop =>
        /\ Res.trust_level = ret.level
        /\ ret.level \in {BASIC, TRUSTED, ESTABLISHED} =>
              /\ Res.airdrop_amount_sats = AIRDROP_AMOUNTS[ret.level].sbtc_sats
              /\ Res.airdrop_amount_stx = AIRDROP_AMOUNTS[ret.level].stx_ustx
        /\ ret.level \in {UNKNOWN, PENDING} =>
              /\ Res.airdrop_amount_sats = 0
              /\ Res.airdrop_amount_stx = 0
        /\ /\ ret.count_seen = 0
           /\ ret.frame.balance = min_stx_balance
           /\ Res.checks_passed =
                 <<"valid_address", "min_balance", "github_mcp", "mcp_endpoint">>
           => /\ ret.level = BASIC
              /\ Res.airdrop_amount_sats = 1000
              /\ Res.airdrop_amount_stx = 100000

\* C12 witness: the first verification of the example, granted.
C12_Witness ==
    /\ Returned /\ Res.eligible_for_airdrop
    /\ ret.count_seen = 0 /\ ret.frame.balance = min_stx_balance
    /\ Len(Res.checks_passed) = 4
    /\ Contains(Res.checks_passed, "github_mcp")
    /\ Contains(Res.checks_passed, "mcp_endpoint")
    /\ Res.trust_level = BASIC /\ Res.airdrop_amount_sats = 1000

\* C13 as claimed: a request whose checks all passed and which the rate
\* limiter denies gets rewards 0 and reports the level resolved for it.
C13_DeniedKeepsLevel ==
    Returned /\ ret.limiter = "deny" /\ Res.checks_failed = <<>> =>
        /\ Res.airdrop_amount_sats = 0
        /\ Res.airdrop_amount_stx = 0
        /\ Res.trust_level = ret.level

\* C14: a result that is not eligible_for_airdrop has both amounts 0,
\* whatever level the identity resolves to.
C14_IneligibleNoReward ==
    Returned /\ ~Res.eligible_for_airdrop =>
        /\ Res.airdrop_amount_sats = 0
        /\ Res.airdrop_amount_stx = 0

\* C14 witness: an identity that resolves to TRUSTED passes too few checks;
\* the limiter allows it and the result reports TRUSTED without reward.
C14_Witness ==
    /\ Returned /\ ~Res.eligible_for_airdrop
    /\ ret.limiter = "allow" /\ ret.level = TRUSTED /\ Res.trust_level = TRUSTED
    /\ Len(Res.checks_passed) = 2
    /\ Res.airdrop_amount_sats = 0

\* C15 as claimed: every success is eligible with a strictly positive
\* reward, and the identity is in the ledger afterwards.
C15_SuccessPaid ==
    Returned /\ Res.success =>
        /\ Res.eligible_for_airdrop
        /\ Res.airdrop_amount_sats > 0
        /\ HasRecord(Caller)

\* C15 amended: every success is eligible and leaves the identity in the
\* ledger; its reward is strictly positive exactly when the resolved level is
\* BASIC or higher, and a success that resolves to PENDING (exactly 3 passed
\* checks, fewer than 2 earlier verifications) has both amounts 0.
C15_SuccessRecorded ==
    Returned /\ Res.success =>
        /\ Res.eligible_for_airdrop
        /\ HasRecord(Caller)
        /\ Res.airdrop_amount_sats > 0 <=> ret.level >= BASIC
        /\ Res.airdrop_amount_stx > 0 <=> ret.level >= BASIC
        /\ ret.level < BASIC =>
              /\ ret.level = PENDING
              /\ Len(Res.checks_passed) = 3
              /\ ret.count_seen < 2

\* C15 witness: a first verification with 3 passed checks succeeds, is
\* recorded and carries no reward.
C15_Witness ==
    /\ Returned /\ Res.success /\ Res.eligible_for_airdrop
    /\ ret.count_seen = 0 /\ Res.trust_level = PENDING
    /\ Res.airdrop_amount_sats = 0 /\ Res.airdrop_amount_stx = 0
    /\ HasRecord(Caller) /\ verified_agents[Caller].verification_count = 1

\* C16: an identity has a record exactly when an earlier request for it
\* returned eligible; a record appears only in the step that returns an
\* eligible result for its identity, and no record is ever deleted.
C16_RecordIffEligible ==
    [][/\ \A a \in DOMAIN verified_agents' \cup DOMAIN succLog' :
             a \in DOMAIN verified_agents'
                 <=> a \in DOMAIN succLog' /\ Len(succLog'[a]) >= 1
       /\ DOMAIN verified_agents \subseteq DOMAIN verified_agents'
       /\ \A a \in DOMAIN verified_agents' \ DOMAIN verified_agents :
             /\ ret'.call /\ ret'.result.eligible_for_airdrop
             /\ ret'.frame.agent_address = a
      ]_vars

\* C16 witness: one identity has a record; another has run the whole
\* pipeline, was allowed by the limiter and found ineligible, and has none.
C16_Witness ==
    /\ HasRecord(AddrA) /\ ~HasRecord(AddrB)
    /\ Returned /\ Caller = AddrB /\ ~Res.eligible_for_airdrop
    /\ ret.limiter = "allow"

\* A step in which a request of identity a returns success.
Succeeds(a) ==
    /\ ~ret.call /\ ret'.call
    /\ ret'.result.success /\ ret'.frame.agent_address = a

\* C17: every record has verification_count >= 1, equal to the number of
\* successful verifications of its identity; the count never decreases, and
\* it grows by exactly 1 in a step that returns success for the identity and
\* stays in every other step.
C17_CountIsSuccesses ==
    [][\A a \in DOMAIN verified_agents' :
          /\ verified_agents'[a].verification_count >= 1
          /\ verified_agents'[a].verification_count = Len(succLog'[a])
          /\ verified_agents'[a].verification_count >= CountOf(a)
          /\ verified_agents'[a].verification_count
                = CountOf(a) + (IF Succeeds(a) THEN 1 ELSE 0)
      ]_vars

\* C17 witness: a third success takes the count from 2 to 3.
C17_Witness ==
    /\ Returned /\ Res.success /\ ret.count_seen = 2
    /\ verified_agents[Caller].verification_count = 3
    /\ Len(succLog[Caller]) = 3

\* C18: every record has last_activity >= first_seen, and the first_seen of
\* an existing record never changes.
C18_FirstSeenFixed ==
    [][\A a \in DOMAIN verified_agents' :
          /\ verified_agents'[a].last_activity >= verified_agents'[a].first_seen
          /\ HasRecord(a) =>
                verified_agents'[a].first_seen = verified_agents[a].first_seen
      ]_vars

\* C18 witness: a record verified again later than it was first seen, read
\* after the clock was set back behind its last_activity.
C18_Witness ==
    /\ HasRecord(AddrA)
    /\ verified_agents[AddrA].verification_count >= 2
    /\ verified_agents[AddrA].last_activity > verified_agents[AddrA].first_seen
    /\ now < verified_agents[AddrA].last_activity

\* Entries of the log `log` (identity -> times of its successes) at times
\* lo..hi, over the identities in S.
RECURSIVE LoggedIn(_, _, _, _)
LoggedIn(log, S, lo, hi) ==
    IF S = {} THEN 0
    ELSE LET a == CHOOSE x \in S : TRUE
         IN  Cardinality({i \in 1..Len(log[a]) : lo <= log[a][i] /\ log[a][i] <= hi})
             + LoggedIn(log, S \ {a}, lo, hi)

\* C19: a step writes the ledger exactly when it adds 1 to the counter (on
\* top of a reset, if the step took one), so no state shows one without the
\* other; and after every step the counter is the number of successful
\* verifications since last_reset.
C19_CommitCounts ==
    [][LET committed == verified_agents' /= verified_agents
           base == IF last_reset' /= last_reset THEN 0 ELSE daily_airdrop_count
       IN  /\ committed => daily_airdrop_count' = base + 1
           /\ daily_airdrop_count' > base => committed
           /\ ~committed => daily_airdrop_count' = base
           /\ committed <=> ret'.call /\ ~ret.call /\ ret'.result.success
           /\ daily_airdrop_count'
                 = LoggedIn(succLog', DOMAIN succLog', last_reset', now')
      ]_vars

\* C19 witness: a request has just committed the verification that fills the
\* window while another request, about to reach the limiter, is in flight.
C19_Witness ==
    /\ Returned /\ Res.success
    /\ daily_airdrop_count = ret.daily_seen + 1
    /\ daily_airdrop_count = MAX_AIRDROPS_PER_DAY
    /\ \E f \in Frames : f.pc = "github" /\ ~HasRecord(f.agent_address)

\* Ordinary failures of the four checks: a balance of 0, a repository
\* without package.json or MCP config, an endpoint answering 404, a name
\* that is not registered.
NoBalance  == [Http(200) EXCEPT !.balance = 0]
NoMcpRepo  == Gh("none", 404, FALSE, FALSE)
NoEndpoint == Http(404)
NoName     == Http(404)

\* The check named `passed` is not among the passed checks of the request
\* that frame f belongs to, after the step.
NotPassedAfter(f, passed) ==
    /\ ret'.call => ~Contains(ret'.result.checks_passed, passed)
    /\ \A g \in BagToSet(req') :
          g.agent_address = f.agent_address => ~Contains(g.checks_passed, passed)

\* C20: a step in which an oracle call raises is the very step an ordinary
\* failure of that check takes (same frame, same ledger, same result): the
\* balance is read as 0 and ends the request with insufficient_balance, the
\* repository, endpoint and name checks are not passed and the pipeline goes
\* on; a result, when the step returns one, is an ordinary VerificationResult.
C20_FaultIsFailure ==
    [][\A f \in Frames :
          /\ BalanceReturns(f, Exc) =>
                /\ BalanceReturns(f, NoBalance)
                /\ NotPassedAfter(f, "min_balance")
                /\ ret'.call /\ ret'.frame.balance = 0
                /\ Contains(ret'.result.checks_failed, "insufficient_balance")
          /\ \A r \in {r \in GithubResponses : GhRaises(r)} :
                GithubReturns(f, r) =>
                    /\ GithubReturns(f, NoMcpRepo)
                    /\ NotPassedAfter(f, "github_mcp")
          /\ EndpointReturns(f, Exc) =>
                /\ EndpointReturns(f, NoEndpoint)
                /\ NotPassedAfter(f, "mcp_endpoint")
          /\ BnsReturns(f, Exc) =>
                /\ BnsReturns(f, NoName)
                /\ NotPassedAfter(f, "bns_verified")
          /\ ret'.call =>
                /\ ret'.result.success \in BOOLEAN
                /\ ret'.result.trust_level \in TrustLevel
                /\ ret'.result.success => Len(ret'.result.checks_passed) >= 3
      ]_vars

\* C20 witness: the repository and the endpoint oracle both raised (no
\* oracle fails otherwise here), the name oracle answered, and the request
\* ran to the end: allowed by the limiter, it returns an eligible result.
C20_Witness ==
    /\ Returned /\ ret.limiter = "allow"
    /\ Res.checks_failed = <<"github_mcp_missing", "mcp_endpoint_down">>
    /\ Res.checks_passed = <<"valid_address", "min_balance", "bns_verified">>
    /\ Res.success

\* The check named `passed` is among the passed checks of the request that
\* frame f belongs to, after the step.
PassedAfter(f, passed) ==
    \/ ret'.call /\ ret'.frame.agent_address = f.agent_address
          /\ Contains(ret'.result.checks_passed, passed)
    \/ \E g \in BagToSet(req') :
          g.agent_address = f.agent_address /\ Contains(g.checks_passed, passed)

\* C21 as claimed: the endpoint check passes for any HTTP-level response,
\* whatever its status code, and fails only when the request raises.
C21_AnyResponseAlive ==
    [][\A f \in Frames : \A r \in EndpointResponses :
          EndpointReturns(f, r) =>
              (PassedAfter(f, "mcp_endpoint") <=> ~Raises(r))
      ]_vars

\* C22: a name check that fails (or whose oracle raises) ends nothing and
\* costs nothing: the request goes on to the limiter with its lists as they
\* were, no failure recorded, and if the limiter allows it and 3 checks had
\* passed without the name it is eligible; and a request without a name
\* reference that the limiter allows with 3 passed checks is eligible, with
\* the BASIC reward when it is a first verification with 4.
C22_NameIsBonus ==
    [][/\ \A f \in Frames : \A r \in BnsResponses(f.agent_address) :
             BnsReturns(f, r) /\ ~verify_bns_ownership(f.agent_address, r) =>
                 /\ ret'.call /\ ret'.limiter /= "none"
                 /\ ret'.result.checks_passed = f.checks_passed
                 /\ ret'.result.checks_failed = f.checks_failed
                 /\ ret'.limiter = "allow" /\ Len(f.checks_passed) >= 3
                       => ret'.result.eligible_for_airdrop
       /\ ret'.call /\ ~Truthy(ret'.frame.bns_name) /\ ret'.limiter = "allow"
             /\ Len(ret'.result.checks_passed) >= 3 =>
                 /\ ret'.result.eligible_for_airdrop
                 /\ Len(ret'.result.checks_passed) = 4 /\ ret'.count_seen = 0
                       => ret'.result.airdrop_amount_sats > 0
      ]_vars

\* C22 witness: a name reference was supplied and not verified, and the
\* request is eligible on its other checks and rewarded.
C22_Witness ==
    /\ Returned /\ Truthy(ret.frame.bns_name)
    /\ ~Contains(Res.checks_passed, "bns_verified")
    /\ Len(Res.checks_passed) = 4 /\ Res.checks_failed = <<>>
    /\ Res.eligible_for_airdrop /\ Res.airdrop_amount_sats > 0

\* C23: a result carries the rate-limit reason exactly when the limiter
\* denied the request; such a result has success false; and a request the
\* limiter allowed with too few checks carries another reason.
C23_DenialReason ==
    Returned =>
        /\ Res.reason = "Rate limit exceeded. Try again later."
              <=> ret.limiter = "deny"
        /\ ret.limiter = "deny" => ~Res.success /\ ~Res.eligible_for_airdrop
        /\ ret.limiter = "allow" /\ ~Res.success =>
              /\ Res.reason = "Insufficient checks passed"
              /\ Res.reason /= "Rate limit exceeded. Try again later."

\* C23 witness: a request with too few checks that the limiter denies
\* carries the rate-limit reason, not the other one.
C23_Witness ==
    /\ Returned /\ ret.limiter = "deny" /\ Len(Res.checks_passed) = 2
    /\ Res.checks_failed /= <<>>
    /\ Res.reason = "Rate limit exceeded. Try again later."

\* C24: every request that is in flight returns a result to its caller:
\* whatever the other requests, the ledger and the limiter do, a request of
\* identity a that is waiting leads to a result for a.
C24_EveryRequestReturns ==
    \A a \in ValidAddrs : InFlight(a) ~> (ret.call /\ ret.frame.agent_address = a)

\* C24 witness: a request has run through all four oracles and returns while
\* a request of the other identity is still waiting on its first.
C24_Witness ==
    /\ Returned /\ Truthy(ret.frame.github_repo) /\ Truthy(ret.frame.mcp_endpoint)
    /\ Truthy(ret.frame.bns_name) /\ ret.limiter /= "none"
    /\ \E f \in Frames : f.agent_address /= Caller /\ f.pc = "balance"

\* C25: get_stats reports the number of ledger records, the daily counter,
\* the cap and a histogram with one entry per trust level whose counts add
\* up to the number of records; a fresh verifier reports 0 and 0, and one
\* commit at BASIC on it makes both 1 with BASIC counted once.
C25_Stats ==
    /\ [](/\ get_stats.total_verified = Cardinality(DOMAIN verified_agents)
          /\ get_stats.daily_airdrops = daily_airdrop_count
          /\ get_stats.max_daily = 10
          /\ DOMAIN get_stats.trust_distribution =
                {"UNKNOWN", "PENDING", "BASIC", "TRUSTED", "ESTABLISHED"}
          /\ SumOver(get_stats.trust_distribution,
                     DOMAIN get_stats.trust_distribution) = get_stats.total_verified
          /\ (verified_agents = <<>> /\ daily_airdrop_count = 0) =>
                get_stats.total_verified = 0 /\ get_stats.daily_airdrops = 0)
    /\ [][\A a \in ValidAddrs, g \in GithubRepos, b \in BnsNames :
             /\ verified_agents = <<>> /\ daily_airdrop_count = 0
             /\ RecordVerificationCalled(a, g, b, BASIC)
             => /\ get_stats'.total_verified = 1
                /\ get_stats'.daily_airdrops = 1
                /\ get_stats'.trust_distribution["BASIC"] = 1
         ]_vars

\* C25 witness: the ledger holds two records of different levels, one of
\* them verified twice.
C25_Witness ==
    /\ get_stats.total_verified = 2 /\ get_stats.daily_airdrops = 3
    /\ get_stats.trust_distribution["BASIC"] = 1
    /\ get_stats.trust_distribution["ESTABLISHED"] = 1

\* C26: the reward table strictly increases from BASIC to TRUSTED to
\* ESTABLISHED in sats and in microSTX, so a granted reward is larger, in
\* both units, than the reward of every lower level and smaller than that
\* of every higher one.
C26_RewardsIncrease ==
    /\ \A lo, hi \in {BASIC, TRUSTED, ESTABLISHED} :
          lo < hi =>
             /\ AIRDROP_AMOUNTS[lo].sbtc_sats < AIRDROP_AMOUNTS[hi].sbtc_sats
             /\ AIRDROP_AMOUNTS[lo].stx_ustx < AIRDROP_AMOUNTS[hi].stx_ustx
    /\ Returned /\ Res.eligible_for_airdrop
          /\ Res.trust_level \in {BASIC, TRUSTED, ESTABLISHED} =>
             \A l \in {BASIC, TRUSTED, ESTABLISHED} :
                /\ l < Res.trust_level =>
                      /\ AIRDROP_AMOUNTS[l].sbtc_sats < Res.airdrop_amount_sats
                      /\ AIRDROP_AMOUNTS[l].stx_ustx < Res.airdrop_amount_stx
                /\ l > Res.trust_level =>
                      /\ AIRDROP_AMOUNTS[l].sbtc_sats > Res.airdrop_amount_sats
                      /\ AIRDROP_AMOUNTS[l].stx_ustx > Res.airdrop_amount_stx

\* C26 witness: a reward granted at TRUSTED, between the other two.
C26_Witness ==
    /\ Returned /\ Res.eligible_for_airdrop /\ Res.trust_level = TRUSTED
    /\ Res.airdrop_amount_sats = 5000 /\ Res.airdrop_amount_stx = 500000

\* C27: the format check accepts an identity exactly when it starts with SP
\* or ST and has at least 30 characters: a request is waiting on an oracle
\* or has passed valid_address only with such an identity, and a result
\* for any other identity records invalid_address; the short, the empty and
\* the wrongly prefixed strings of the tests are rejected.
C27_FormatCheck ==
    LET WellFormed(a) == Len(a) >= 30 /\ SubSeq(a, 1, 2) \in {"SP", "ST"}
    IN  /\ \A f \in Frames : WellFormed(f.agent_address)
        /\ Returned =>
              /\ Contains(Res.checks_passed, "valid_address") <=> WellFormed(Caller)
              /\ Contains(Res.checks_failed, "invalid_address") <=> ~WellFormed(Caller)
        /\ \A a \in {"", "SP" \o Pad(3), "0x" \o Pad(MaxPad)} :
              ~is_valid_stacks_address(a)
        /\ \A a \in Addresses : is_valid_stacks_address(a) <=> WellFormed(a)

\* C27 witness: a testnet identity of exactly 30 characters has passed the
\* format check and its request has returned.
C27_Witness ==
    /\ Returned /\ Caller = "ST" \o Pad(28)
    /\ Contains(Res.checks_passed, "valid_address")

\* C28: a commit for an identity without a record creates one with
\* verification_count 1 and first_seen = last_activity = now; a commit for
\* an identity with a record adds 1 to verification_count, sets
\* last_activity to now and trust_level to the level given, and keeps
\* address, first_seen, github_repo and bns_name whatever evidence came
\* with it; every other identity's record is unchanged.
C28_CommitFrame ==
    [][\A a \in ValidAddrs, g \in GithubRepos, b \in BnsNames, tl \in TrustLevel :
          RecordVerificationCalled(a, g, b, tl) =>
             /\ DOMAIN verified_agents' = DOMAIN verified_agents \cup {a}
             /\ \A o \in DOMAIN verified_agents \ {a} :
                   verified_agents'[o] = verified_agents[o]
             /\ verified_agents'[a].address = a
             /\ verified_agents'[a].last_activity = now
             /\ verified_agents'[a].trust_level = tl
             /\ IF a \in DOMAIN verified_agents
                THEN /\ verified_agents'[a].verification_count =
                           verified_agents[a].verification_count + 1
                     /\ verified_agents'[a].first_seen = verified_agents[a].first_seen
                     /\ verified_agents'[a].github_repo = verified_agents[a].github_repo
                     /\ verified_agents'[a].bns_name = verified_agents[a].bns_name
                ELSE /\ verified_agents'[a].verification_count = 1
                     /\ verified_agents'[a].first_seen = now
                     /\ verified_agents'[a].github_repo = g
                     /\ verified_agents'[a].bns_name = b
      ]_vars

\* C28 witness: a record created without evidence at BASIC has been
\* committed again later at another level, beside another identity's record.
C28_Witness ==
    /\ DOMAIN verified_agents = ValidAddrs
    /\ verified_agents[AddrA].verification_count = 2
    /\ verified_agents[AddrA].first_seen < verified_agents[AddrA].last_activity
    /\ verified_agents[AddrA].trust_level = TRUSTED
    /\ verified_agents[AddrB].trust_level = BASIC
    /\ verified_agents[AddrB].github_repo /= verified_agents[AddrA].github_repo

\* C29: the step in which a request returns ineligible leaves the ledger
\* unchanged and does not increment the daily counter.  If the request
\* failed the format or the stake check, the counter and last_reset are
\* untouched; if it reached the limiter (denied, or allowed with too few
\* checks), they change only by the lazy reset: the counter to 0 and
\* last_reset to now exactly when more than 24 hours have passed.
C29_IneligibleFrame ==
    [][~ret.call /\ ret'.call /\ ~ret'.result.eligible_for_airdrop =>
          /\ verified_agents' = verified_agents
          /\ daily_airdrop_count' <= daily_airdrop_count
          /\ now' = now
          /\ ret'.limiter = "none" <=>
                \/ Contains(ret'.result.checks_failed, "invalid_address")
                \/ Contains(ret'.result.checks_failed, "insufficient_balance")
          /\ ret'.limiter = "none" =>
                /\ daily_airdrop_count' = daily_airdrop_count
                /\ last_reset' = last_reset
          /\ ret'.limiter /= "none" =>
                IF now - last_reset > 24
                THEN daily_airdrop_count' = 0 /\ last_reset' = now
                ELSE /\ daily_airdrop_count' = daily_airdrop_count
                     /\ last_reset' = last_reset
      ]_vars

\* C29 witness: a request denied by the limiter has reset a window in which
\* rewards had been granted, and the ledger still holds its records.
C29_Witness ==
    /\ Returned /\ ret.limiter = "deny" /\ ~Res.eligible_for_airdrop
    /\ ret.reset_seen < last_reset /\ last_reset = now
    /\ ret.daily_seen > 0 /\ daily_airdrop_count = 0
    /\ HasRecord(Caller)

\* The list l names its checks in the order of the list `order`, each once.
InOrder(l, order) == l = SelectSeq(order, LAMBDA x : Contains(l, x))
\* The record r (a frame or a result) lists an outcome of the check whose
\* outcome names are S.
Named(r, S) ==
    \/ \E i \in 1..Len(r.checks_passed) : r.checks_passed[i] \in S
    \/ \E i \in 1..Len(r.checks_failed) : r.checks_failed[i] \in S
\* The record r lists the outcomes of the checks before `stage` for exactly
\* the evidence the frame f came with, and none of `stage` or later.
ListedUpTo(r, f, stage) ==
    LET gh == {"github_mcp", "github_mcp_missing"}
        ep == {"mcp_endpoint", "mcp_endpoint_down"}
        bn == {"bns_verified"}
    IN  /\ Len(r.checks_passed) >= 2
        /\ SubSeq(r.checks_passed, 1, 2) = <<"valid_address", "min_balance">>
        /\ ~Named(r, {"invalid_address", "insufficient_balance"})
        /\ IF stage \in {"endpoint", "bns", "decide"}
           THEN Named(r, gh) <=> Truthy(f.github_repo)
           ELSE ~Named(r, gh)
        /\ IF stage \in {"bns", "decide"}
           THEN Named(r, ep) <=> Truthy(f.mcp_endpoint)
           ELSE ~Named(r, ep)
        /\ IF stage = "decide"
           THEN Named(r, bn) => Truthy(f.bns_name)
           ELSE ~Named(r, bn)

\* C30: the checks run in the order format, stake, repository, endpoint,
\* name, and both lists name them in that order.  A request waiting on an
\* oracle has listed exactly the checks before it; it waits on the
\* repository, endpoint or name oracle only if that evidence was supplied.
\* A result after a format or a stake failure lists nothing later; any other
\* result lists a repository and an endpoint outcome exactly when the
\* evidence was supplied, passed or failed, and bns_verified only with a
\* name supplied.
C30_CheckOrder ==
    LET passOrder == <<"valid_address", "min_balance", "github_mcp",
                       "mcp_endpoint", "bns_verified">>
        failOrder == <<"invalid_address", "insufficient_balance",
                       "github_mcp_missing", "mcp_endpoint_down">>
    IN  /\ \A f \in Frames :
              /\ InOrder(f.checks_passed, passOrder)
              /\ InOrder(f.checks_failed, failOrder)
              /\ f.pc \in {"balance", "github", "endpoint", "bns"}
              /\ f.pc = "balance" =>
                    f.checks_passed = <<"valid_address">> /\ f.checks_failed = <<>>
              /\ f.pc /= "balance" => ListedUpTo(f, f, f.pc)
              /\ f.pc = "github" => Truthy(f.github_repo)
              /\ f.pc = "endpoint" => Truthy(f.mcp_endpoint)
              /\ f.pc = "bns" => Truthy(f.bns_name)
        /\ Returned =>
              /\ InOrder(Res.checks_passed, passOrder)
              /\ InOrder(Res.checks_failed, failOrder)
              /\ IF Contains(Res.checks_failed, "invalid_address")
                 THEN /\ Res.checks_passed = <<>>
                      /\ Res.checks_failed = <<"invalid_address">>
                 ELSE IF Contains(Res.checks_failed, "insufficient_balance")
                 THEN /\ Res.checks_passed = <<"valid_address">>
                      /\ Res.checks_failed = <<"insufficient_balance">>
                 ELSE ListedUpTo(Res, ret.frame, "decide")

\* C30 witness: the repository and the endpoint check failed, in that
\* order, and the name check still ran and passed.
C30_Witness ==
    /\ Returned
    /\ Res.checks_passed = <<"valid_address", "min_balance", "bns_verified">>
    /\ Res.checks_failed = <<"github_mcp_missing", "mcp_endpoint_down">>

\* C31 as claimed: the trust_level stored in a record never decreases from
\* one commit to the next.
C31_TrustNeverDecreases ==
    [][\A a \in DOMAIN verified_agents :
          verified_agents'[a].trust_level >= verified_agents[a].trust_level]_vars

\* C31 as the code has it: the stored trust_level decreases only at an
\* identity's second commit, from BASIC to PENDING, when that request passed
\* exactly three checks; a commit that finds verification_count at 2 or more
\* never lowers it.
C31_TrustRegressesOnce ==
    [][\A a \in DOMAIN verified_agents :
          /\ verified_agents[a].verification_count >= 2 =>
                verified_agents'[a].trust_level >= verified_agents[a].trust_level
          /\ verified_agents'[a].trust_level < verified_agents[a].trust_level =>
                /\ verified_agents[a].verification_count = 1
                /\ verified_agents'[a].verification_count = 2
                /\ verified_agents[a].trust_level = BASIC
                /\ verified_agents'[a].trust_level = PENDING
                /\ ret'.call /\ ret'.frame.agent_address = a
                /\ Len(ret'.result.checks_passed) = 3
      ]_vars

\* C31 witness: an identity's second commit, by a request that passed three
\* checks, has just stored PENDING in its record.
C31_Witness ==
    /\ Returned /\ Res.success /\ ret.count_seen = 1
    /\ Len(LogOf(Caller)) = 2
    /\ Res.trust_level = PENDING
    /\ verified_agents[Caller].trust_level = PENDING
    /\ Len(Res.checks_passed) = 3

\* C32: the stored trust_level is never read by a decision.  Whatever the
\* stored levels are, the result of a request that reaches the limiter
\* (level, eligibility, rewards, reason) and the counts and timestamps it
\* leaves are the function written here of the record's verification_count
\* and last_activity, the limiter's counter and window and the clock; a
\* result that stops at the format or stake check is fixed; and replacing a
\* stored level changes of get_stats only the histogram.
C32_StoredLevelUnread ==
    [][/\ ~ret.call /\ ret'.call /\ ret'.limiter /= "none" =>
             LET a == ret'.frame.agent_address
                 passed == ret'.result.checks_passed
                 has == a \in DOMAIN verified_agents
                 count == IF has THEN verified_agents[a].verification_count ELSE 0
                 reset == now - last_reset > 24
                 cnt == IF reset THEN 0 ELSE daily_airdrop_count
                 allowed ==
                    /\ cnt < MAX_AIRDROPS_PER_DAY
                    /\ has => /\ now - verified_agents[a].last_activity >= COOLDOWN_HOURS
                              /\ count < MAX_AIRDROPS_PER_ADDRESS
                 level == TrustRule(count, Len(passed))
                 commit == /\ allowed /\ Len(passed) >= 3
                           /\ Contains(passed, "min_balance")
                 paid == commit /\ level \in {BASIC, TRUSTED, ESTABLISHED}
             IN  /\ ret'.result.trust_level = IF allowed THEN level ELSE UNKNOWN
                 /\ ret'.result.success = commit
                 /\ ret'.result.eligible_for_airdrop = commit
                 /\ ret'.result.airdrop_amount_sats =
                       IF paid THEN AIRDROP_AMOUNTS[level].sbtc_sats ELSE 0
                 /\ ret'.result.airdrop_amount_stx =
                       IF paid THEN AIRDROP_AMOUNTS[level].stx_ustx ELSE 0
                 /\ ret'.result.reason =
                       IF ~allowed THEN "Rate limit exceeded. Try again later."
                       ELSE IF commit THEN "Verification passed"
                       ELSE "Insufficient checks passed"
                 /\ last_reset' = IF reset THEN now ELSE last_reset
                 /\ daily_airdrop_count' = IF commit THEN cnt + 1 ELSE cnt
                 /\ IF commit
                    THEN /\ DOMAIN verified_agents' = DOMAIN verified_agents \cup {a}
                         /\ verified_agents'[a].verification_count = count + 1
                         /\ verified_agents'[a].last_activity = now
                         /\ verified_agents'[a].first_seen =
                               IF has THEN verified_agents[a].first_seen ELSE now
                    ELSE verified_agents' = verified_agents
       /\ ~ret.call /\ ret'.call /\ ret'.limiter = "none" =>
             /\ ret'.result.trust_level = UNKNOWN
             /\ ~ret'.result.eligible_for_airdrop
             /\ ret'.result.airdrop_amount_sats = 0
             /\ ret'.result.airdrop_amount_stx = 0
             /\ UNCHANGED <<verified_agents, daily_airdrop_count, last_reset>>
       /\ \A a \in ValidAddrs, tl \in TrustLevel :
             TrustLevelStored(a, tl) =>
                /\ get_stats'.total_verified = get_stats.total_verified
                /\ get_stats'.daily_airdrops = get_stats.daily_airdrops
                /\ get_stats'.max_daily = get_stats.max_daily
                /\ get_stats'.trust_distribution /= get_stats.trust_distribution
      ]_vars

\* C32 witness: a record that stores ESTABLISHED after one verification is
\* presented again a cooldown later with two passed checks: the limiter
\* allows, the result resolves PENDING and the record is as it was.
C32_Witness ==
    /\ Returned /\ ret.limiter = "allow" /\ ~Res.success
    /\ ret.count_seen = 1 /\ Len(Res.checks_passed) = 2
    /\ Res.trust_level = PENDING
    /\ verified_agents[Caller].trust_level = ESTABLISHED
    /\ verified_agents[Caller].verification_count = 1

\* C33: requests for distinct identities are independent.  A request holds
\* no shared state while it waits: the ledger and the limiter change only in
\* the step in which a request returns, so every interleaving is the
\* sequential execution of the requests in the order of their returns.  In
\* that step the request neither writes another identity's record nor
\* depends on one: whether it is allowed, what it resolves to and what it
\* leaves are fixed by its own checks, its own record, the daily counter,
\* the window and the clock.
C33_IdentitiesIndependent ==
    [][/\ ~ret'.call => UNCHANGED <<verified_agents, daily_airdrop_count, last_reset>>
       /\ ~ret.call /\ ret'.call =>
             LET a == ret'.frame.agent_address
                 passed == ret'.result.checks_passed
                 has == a \in DOMAIN verified_agents
                 cnt == IF now - last_reset > 24 THEN 0 ELSE daily_airdrop_count
                 allowed ==
                    /\ cnt < MAX_AIRDROPS_PER_DAY
                    /\ has =>
                          /\ now - verified_agents[a].last_activity >= COOLDOWN_HOURS
                          /\ verified_agents[a].verification_count
                                < MAX_AIRDROPS_PER_ADDRESS
                 commit == /\ ret'.limiter /= "none" /\ allowed
                           /\ Len(passed) >= 3 /\ Contains(passed, "min_balance")
             IN  /\ \A o \in DOMAIN verified_agents \ {a} :
                       /\ o \in DOMAIN verified_agents'
                       /\ verified_agents'[o] = verified_agents[o]
                 /\ DOMAIN verified_agents' \subseteq DOMAIN verified_agents \cup {a}
                 /\ ret'.limiter /= "none" => (ret'.limiter = "allow" <=> allowed)
                 /\ ret'.result.success = commit
                 /\ ret'.result.trust_level =
                       IF ret'.limiter = "allow"
                       THEN TrustRule(IF has THEN verified_agents[a].verification_count
                                      ELSE 0, Len(passed))
                       ELSE UNKNOWN
                 /\ daily_airdrop_count' =
                       IF ret'.limiter = "none" THEN daily_airdrop_count
                       ELSE IF commit THEN cnt + 1 ELSE cnt
                 /\ commit <=> /\ a \in DOMAIN verified_agents'
                               /\ ~has \/ verified_agents'[a] /= verified_agents[a]
      ]_vars

\* C33 witness: a request for one identity succeeds at the clock reading at
\* which the other identity was committed, having seen the counter that
\* commit left, while another request of the other identity is waiting.
C33_Witness ==
    /\ Returned /\ Caller = AddrA /\ Res.success
    /\ ret.daily_seen = 1 /\ ret.count_seen = 0
    /\ HasRecord(AddrB) /\ verified_agents[AddrB].last_activity = now
    /\ \E f \in Frames : f.agent_address = AddrB

\* C34 as claimed: the cumulative reward totals of a record are the sum of
\* the rewards of the identity's successful verifications: a new record
\* starts from 0, every success adds its two amounts to the totals, and no
\* other step changes them.
C34_TotalsAccumulate ==
    [][IF ~ret.call /\ ret'.call /\ ret'.result.eligible_for_airdrop
       THEN LET a == ret'.frame.agent_address
                sats == IF HasRecord(a) THEN verified_agents[a].total_airdrops_sats
                        ELSE 0
                stx  == IF HasRecord(a) THEN verified_agents[a].total_airdrops_stx
                        ELSE 0
            IN  /\ verified_agents'[a].total_airdrops_sats =
                      sats + ret'.result.airdrop_amount_sats
                /\ verified_agents'[a].total_airdrops_stx =
                      stx + ret'.result.airdrop_amount_stx
       ELSE \A a \in DOMAIN verified_agents :
               /\ verified_agents'[a].total_airdrops_sats =
                     verified_agents[a].total_airdrops_sats
               /\ verified_agents'[a].total_airdrops_stx =
                     verified_agents[a].total_airdrops_stx
      ]_vars

\* C35: driven through verify_agent from an empty ledger, no result reports
\* ESTABLISHED, no record stores it and its reward is never granted: the
\* level resolves to ESTABLISHED only for a record with verification_count
\* 5, and such a request is denied by the per-address cap and reports
\* UNKNOWN with rewards 0.
C35_EstablishedUnreachable ==
    /\ \A a \in DOMAIN verified_agents :
          /\ verified_agents[a].trust_level /= ESTABLISHED
          /\ verified_agents[a].verification_count <= 5
    /\ Returned =>
          /\ Res.trust_level /= ESTABLISHED
          /\ Res.airdrop_amount_sats < AIRDROP_AMOUNTS[ESTABLISHED].sbtc_sats
          /\ Res.airdrop_amount_stx < AIRDROP_AMOUNTS[ESTABLISHED].stx_ustx
    /\ ReachedLimiter =>
          /\ ret.level = ESTABLISHED <=> ret.count_seen = 5
          /\ ret.count_seen = 5 =>
                /\ ret.limiter = "deny"
                /\ Res.trust_level = UNKNOWN
                /\ ~Res.eligible_for_airdrop
                /\ Res.airdrop_amount_sats = 0 /\ Res.airdrop_amount_stx = 0

\* C35 witness: after five successes and a full cooldown a request with all
\* four checks passed resolves to ESTABLISHED and is denied.
C35_Witness ==
    /\ Returned /\ ret.count_seen = 5 /\ ret.level = ESTABLISHED
    /\ now - ret.last_seen >= COOLDOWN_HOURS
    /\ Len(Res.checks_passed) = 4
    /\ ret.limiter = "deny" /\ Res.trust_level = UNKNOWN
    /\ verified_agents[Caller].trust_level = TRUSTED

MaxTimeAgent == 24   \* last clock value of SpecAgent

\* AgentIdentity as initialize() builds it; its content is never inspected.
AgentIdentity == "AgentIdentity"

AirdropRecord(recipient, sbtc_sats, stx_ustx, tx_id, timestamp, reason) ==
    [recipient |-> recipient, sbtc_sats |-> sbtc_sats, stx_ustx |-> stx_ustx,
     tx_id |-> tx_id, timestamp |-> timestamp, reason |-> reason]

ErrorResponse == [NoResponse EXCEPT !.error = "Agent not initialized"]

\* _execute_airdrop: the dict it returns and the history it leaves.  The
\* transfer is only prepared (sbtc.prepare_transfer builds a dict for a
\* network of "mainnet" or "testnet"), nothing is broadcast.
execute_airdrop(recipient, sbtc_sats, stx_ustx, reason) ==
    IF identity = None
    THEN [result |-> [error |-> "Agent not initialized", recipient |-> None,
                      sbtc_sats |-> 0, stx_ustx |-> 0,
                      sbtc_tx_prepared |-> FALSE, timestamp |-> now],
          airdrop_history |-> airdrop_history]
    ELSE [result |-> [error |-> None, recipient |-> recipient,
                      sbtc_sats |-> sbtc_sats, stx_ustx |-> stx_ustx,
                      sbtc_tx_prepared |-> sbtc_sats > 0, timestamp |-> now],
          airdrop_history |->
              Append(airdrop_history,
                     AirdropRecord(recipient, sbtc_sats, stx_ustx, None, now,
                                   reason))]

\* Variant: a reward is handed over whenever it has sats in it.
should_airdrop_paid(result) == result.airdrop_amount_sats > 0

\* verify_and_airdrop, the test in front of the airdrop.
should_airdrop(result) == result.eligible_for_airdrop

\* initialize() reaches its last statement.
Initialize ==
    /\ ~ret.call
    /\ identity' = AgentIdentity
    /\ ret' = NoRet
    /\ UNCHANGED <<verified_agents, daily_airdrop_count, last_reset, now, req,
                   succLog, capDenied, rewarded, airdrop_history, response,
                   daoVars>>

\* verify_and_airdrop is called: up to its await of verify_agent, which runs
\* to its own first await.
VerifyAndAirdropCalled(target_address, github_repo, mcp_endpoint) ==
    IF identity = None
    THEN /\ ~ret.call
         /\ response' = ErrorResponse
         /\ ret' = NoRet
         /\ UNCHANGED <<verified_agents, daily_airdrop_count, last_reset, now,
                        req, succLog, capDenied, rewarded, identity,
                        airdrop_history, daoVars>>
    ELSE Start(target_address, github_repo, mcp_endpoint, None)

\* verify_agent has returned: verify_and_airdrop runs from its await to its
\* return, _execute_airdrop included (which awaits nothing).
AgentResumes ==
    /\ ret.call
    /\ LET result == ret.result
           target_address == ret.frame.agent_address
           paid == execute_airdrop(target_address, result.airdrop_amount_sats,
                       result.airdrop_amount_stx,
                       "MCP verification - " \o TrustLevelName[result.trust_level])
           base == [NoResponse EXCEPT !.target = target_address,
                                      !.verified = result.success,
                                      !.trust_level = TrustLevelName[result.trust_level],
                                      !.reason = result.reason]
       IN  IF should_airdrop(result)
           THEN /\ response' = [base EXCEPT !.airdrop = <<paid.result>>]
                /\ airdrop_history' = paid.airdrop_history
           ELSE /\ response' = base
                /\ airdrop_history' = airdrop_history
    /\ ret' = NoRet
    /\ UNCHANGED <<verified_agents, daily_airdrop_count, last_reset, now, req,
                   succLog, capDenied, rewarded, identity, daoVars>>

AgentCalls ==
    /\ BagCardinality(req) < NReq
    /\ \E a \in {AddrA, AddrShort}, g \in GithubRepos, e \in McpEndpoints :
          VerifyAndAirdropCalled(a, g, e)

(* SpecAgent: the agent, before and after initialize(), asked to verify and *)
(* reward one identity (and a malformed one), with requests overlapping.    *)
NextAgent ==
    \/ Initialize
    \/ AgentCalls
    \/ \E f \in Frames, resp \in BalanceResponses : BalanceReturns(f, resp)
    \/ \E f \in Frames, resp \in GithubResponses : GithubReturns(f, resp)
    \/ \E f \in Frames, resp \in EndpointResponses : EndpointReturns(f, resp)
    \/ AgentResumes
    \/ Tick(MaxTimeAgent)

SpecAgent == Init /\ [][NextAgent]_vars

NDaoAddr     == 51   \* well-formed addresses that may ask to join a proposal

DEFAULT_MIN_PARTICIPANTS == 10
DEFAULT_MAX_PARTICIPANTS == 50

GATHERING     == "gathering"
THRESHOLD_MET == "threshold_met"
DEPLOYING     == "deploying"
DEPLOYED      == "deployed"
FAILED        == "failed"

\* DAOFactory.network as constructed by default.
network == "mainnet"

Digits       == "0123456789"
UpperLetters == "ABCDEFGHIJKLMNOPQRSTUVWXYZ"
LowerLetters == "abcdefghijklmnopqrstuvwxyz"
CharsOf(s)   == {SubSeq(s, i, i) : i \in 1..Len(s)}

\* str.isalnum on the characters used here.
isalnum(s) ==
    /\ Len(s) > 0
    /\ CharsOf(s) \subseteq CharsOf(Digits) \cup CharsOf(UpperLetters) \cup CharsOf(LowerLetters)

RECURSIVE upper(_)
\* str.upper on the characters used here.
upper(s) ==
    IF s = "" THEN ""
    ELSE LET c == SubSeq(s, 1, 1)
             u == IF c \in CharsOf(LowerLetters)
                  THEN LET i == CHOOSE k \in 1..Len(LowerLetters) :
                                    SubSeq(LowerLetters, k, k) = c
                       IN  SubSeq(UpperLetters, i, i)
                  ELSE c
         IN  u \o upper(SubSeq(s, 2, Len(s)))

\* The i-th well-formed address, and two malformed ones: too short, and long
\* enough but with a character that is not alphanumeric.
DaoAddr(i)    == "SP0000000000000000000000000000" \o ToString(i)
DaoAddrShort  == "SP1"
DaoAddrPunct  == "SP0000000000000000000000000000-1"

Participant(stacks_address, mcp_verified) ==
    [stacks_address |-> stacks_address, mcp_verified |-> mcp_verified,
     allocation_bp |-> 0]

DAOProposal(dao_id, symbol, proposer) ==
    [dao_id |-> dao_id, symbol |-> symbol, proposer |-> proposer,
     participants |-> <<>>, status |-> GATHERING,
     token_address |-> None, dao_address |-> None, treasury_address |-> None,
     min_participants |-> DEFAULT_MIN_PARTICIPANTS,
     max_participants |-> DEFAULT_MAX_PARTICIPANTS]

participant_count(p) == Len(p.participants)
threshold_met(p) == participant_count(p) >= p.min_participants

\* Variant: a participant already in the list is appended again.
proposal_add_participant_again(p, participant) ==
    IF participant_count(p) >= p.max_participants
    THEN [ok |-> FALSE, proposal |-> p]
    ELSE LET q == [p EXCEPT !.participants = Append(@, participant)]
         IN  [ok |-> TRUE,
              proposal |-> IF threshold_met(q) /\ q.status = GATHERING
                           THEN [q EXCEPT !.status = THRESHOLD_MET] ELSE q]

\* DAOProposal.add_participant: whether it added, and the proposal after it.
proposal_add_participant(p, participant) ==
    IF participant_count(p) >= p.max_participants
    THEN [ok |-> FALSE, proposal |-> p]
    ELSE IF \E i \in 1..Len(p.participants) :
                p.participants[i].stacks_address = participant.stacks_address
    THEN [ok |-> FALSE, proposal |-> p]
    ELSE LET q == [p EXCEPT !.participants = Append(@, participant)]
         IN  [ok |-> TRUE,
              proposal |-> IF threshold_met(q) /\ q.status = GATHERING
                           THEN [q EXCEPT !.status = THRESHOLD_MET] ELSE q]

\* WhitelistManager._is_valid_stacks_address.
dao_is_valid_stacks_address(address) ==
    /\ startswith(address, "SP") \/ startswith(address, "ST")
    /\ Len(address) >= 30
    /\ isalnum(address)

\* WhitelistManager._verify_mcp with no appleseed_path configured.
verify_mcp(address) == FALSE

\* What a call into the DAO package leaves: the proposals, and what it
\* returned, or that it raised.
DaoOutcome(ps, success, message, raised) ==
    [proposals |-> ps, success |-> success, message |-> message,
     raised |-> raised]

\* _save_proposals writes data/daos/proposals.json, which may fail.
SaveOutcomes == {"saved", "raises"}

\* WhitelistManager.add_participant.
add_participant(ps, dao_id, address, save) ==
    IF dao_id \notin DOMAIN ps
    THEN DaoOutcome(ps, FALSE, "Proposal not found", FALSE)
    ELSE IF ps[dao_id].status \notin {GATHERING, THRESHOLD_MET}
    THEN DaoOutcome(ps, FALSE, "Proposal not accepting participants", FALSE)
    ELSE IF ~dao_is_valid_stacks_address(address)
    THEN DaoOutcome(ps, FALSE, "Invalid Stacks address", FALSE)
    ELSE LET added == proposal_add_participant(ps[dao_id],
                          Participant(address, verify_mcp(address)))
         IN  IF added.ok
             THEN IF save = "raises"
                  THEN DaoOutcome([ps EXCEPT ![dao_id] = added.proposal],
                                  FALSE, "", TRUE)
                  ELSE DaoOutcome([ps EXCEPT ![dao_id] = added.proposal],
                                  TRUE, "Added to whitelist (MCP verified: False)",
                                  FALSE)
             ELSE DaoOutcome(ps, FALSE,
                             "Already in whitelist or max participants reached",
                             FALSE)

DaoRet(op, dao_id, out) ==
    [op |-> op, dao_id |-> dao_id, success |-> out.success,
     message |-> out.message, raised |-> out.raised]

\* WhitelistManager.create_proposal, called once.
CreateProposal(symbol, proposer_address, save) ==
    /\ proposals = <<>>
    /\ LET dao_id == Len(proposals) + 1
           proposal == proposal_add_participant(
                           DAOProposal(dao_id, upper(symbol), proposer_address),
                           Participant(proposer_address, TRUE)).proposal
       IN  /\ proposals' = Append(proposals, proposal)
           /\ dao_ret' = [op |-> "create_proposal", dao_id |-> dao_id,
                          success |-> save = "saved", message |-> "",
                          raised |-> save = "raises"]
    /\ UNCHANGED <<verified_agents, daily_airdrop_count, last_reset, now, req,
                   ret, succLog, capDenied, rewarded, agentVars>>

\* The addresses that ask to join proposal dao_id: the first and the last
\* of its list, the next well-formed one that is not in it (which one it is
\* makes no difference to the code), and the malformed ones.
Joiners(dao_id) ==
    {DaoAddrShort, DaoAddrPunct}
    \cup (IF dao_id \in DOMAIN proposals
          THEN LET n == Len(proposals[dao_id].participants)
               IN  {proposals[dao_id].participants[i].stacks_address : i \in {1, n}}
                   \cup {DaoAddr(i) : i \in {n + 1} \cap 1..NDaoAddr}
          ELSE {DaoAddr(1)})

AddParticipant(dao_id, address, save) ==
    /\ LET out == add_participant(proposals, dao_id, address, save)
       IN  /\ proposals' = out.proposals
           /\ dao_ret' = DaoRet("add_participant", dao_id, out)
    /\ UNCHANGED <<verified_agents, daily_airdrop_count, last_reset, now, req,
                   ret, succLog, capDenied, rewarded, agentVars>>

\* WhitelistManager.finalize_allocations, up to its save.
finalize_allocations(p) ==
    IF ~threshold_met(p) \/ participant_count(p) - 1 <= 0
    THEN p
    ELSE LET allocation_per == 10000 \div (participant_count(p) - 1)
         IN  [p EXCEPT !.participants =
                  [i \in 1..Len(@) |->
                      IF @[i].stacks_address /= p.proposer
                      THEN [@[i] EXCEPT !.allocation_bp = allocation_per]
                      ELSE @[i]]]

\* DAOFactory._deploy_contracts: the simulated addresses.
deploy_contracts(p) ==
    LET prefix == IF network = "mainnet" THEN "SP" ELSE "ST"
        sym == upper(p.symbol)
        base == "AGENT" \o SubSeq(sym, 1, IF Len(sym) < 8 THEN Len(sym) ELSE 8)
    IN  [success |-> TRUE,
         token_address |-> prefix \o base \o "TOKEN",
         dao_address |-> prefix \o base \o "DAO",
         treasury_address |-> prefix \o base \o "TREASURY"]

\* WhitelistManager.mark_deployed, up to its save.
mark_deployed(p, deployment) ==
    [p EXCEPT !.status = DEPLOYED,
              !.token_address = deployment.token_address,
              !.dao_address = deployment.dao_address,
              !.treasury_address = deployment.treasury_address]

\* Where a deployment may meet an I/O error: writing proposals.json in
\* mark_deploying, in finalize_allocations or in mark_deployed, or reading
\* the contract template in _generate_contracts.
DeployFaults ==
    {"none", "mark_deploying", "finalize_allocations", "generate_contracts",
     "mark_deployed"}

\* DAOFactory.deploy_dao.  mark_deploying is called in front of the try
\* block, the other steps inside it.
deploy_dao(ps, dao_id, fault) ==
    IF dao_id \notin DOMAIN ps
    THEN DaoOutcome(ps, FALSE, "Proposal not found", FALSE)
    ELSE IF ~threshold_met(ps[dao_id])
    THEN DaoOutcome(ps, FALSE, "Threshold not met", FALSE)
    ELSE IF ps[dao_id].status = DEPLOYED
    THEN DaoOutcome(ps, FALSE, "Already deployed", FALSE)
    ELSE LET deploying == [ps[dao_id] EXCEPT !.status = DEPLOYING]
             finalized == finalize_allocations(deploying)
             deployment == deploy_contracts(finalized)
             deployed == mark_deployed(finalized, deployment)
             failed(q) == DaoOutcome([ps EXCEPT ![dao_id] = [q EXCEPT !.status = FAILED]],
                                     FALSE, "Deployment failed", FALSE)
         IN  CASE fault = "mark_deploying" ->
                      DaoOutcome([ps EXCEPT ![dao_id] = deploying], FALSE, "", TRUE)
               [] fault = "finalize_allocations" -> failed(finalized)
               [] fault = "generate_contracts" -> failed(finalized)
               [] fault = "mark_deployed" -> failed(deployed)
               [] OTHER -> DaoOutcome([ps EXCEPT ![dao_id] = deployed], TRUE,
                                      "DAO deployed successfully", FALSE)

\* WhitelistManager.get_ready_proposals, as the ids in dict order.
get_ready_proposals(ps) ==
    {id \in DOMAIN ps : ps[id].status = THRESHOLD_MET}

RECURSIVE deploy_ready(_, _, _, _)
\* DAOFactory.check_and_deploy_ready: the loop over the ready proposals from
\* id `from` on; faults[id] is what the deployment of id meets.  An exception
\* that leaves deploy_dao ends the loop.
deploy_ready(ps, ready, from, faults) ==
    IF from > Len(ps) THEN DaoOutcome(ps, TRUE, "", FALSE)
    ELSE IF from \notin ready THEN deploy_ready(ps, ready, from + 1, faults)
    ELSE LET out == deploy_dao(ps, from, faults[from])
         IN  IF out.raised THEN out
             ELSE deploy_ready(out.proposals, ready, from + 1, faults)

DeployDao(dao_id, fault) ==
    /\ LET out == deploy_dao(proposals, dao_id, fault)
       IN  /\ proposals' = out.proposals
           /\ dao_ret' = DaoRet("deploy_dao", dao_id, out)
    /\ UNCHANGED <<verified_agents, daily_airdrop_count, last_reset, now, req,
                   ret, succLog, capDenied, rewarded, agentVars>>

CheckAndDeployReady(faults) ==
    /\ LET out == deploy_ready(proposals, get_ready_proposals(proposals), 1, faults)
       IN  /\ proposals' = out.proposals
           /\ dao_ret' = DaoRet("check_and_deploy_ready", 0, out)
    /\ UNCHANGED <<verified_agents, daily_airdrop_count, last_reset, now, req,
                   ret, succLog, capDenied, rewarded, agentVars>>

\* The id of the proposal, and one that names none.
DaoIds == {1, 2}

(* SpecDao: a proposal is created, addresses ask to join it until its list  *)
(* is full, and the factory is asked to deploy it, with the I/O errors the  *)
(* calls may meet.                                                          *)
NextDao ==
    \/ \E proposer \in {DaoAddr(1), DaoAddrShort}, save \in SaveOutcomes :
          CreateProposal("adt", proposer, save)
    \/ \E dao_id \in DaoIds : \E address \in Joiners(dao_id), save \in SaveOutcomes :
          AddParticipant(dao_id, address, save)
    \/ \E dao_id \in DaoIds, fault \in DeployFaults : DeployDao(dao_id, fault)
    \/ \E faults \in [1..Len(proposals) -> DeployFaults] : CheckAndDeployReady(faults)

SpecDao == Init /\ [][NextDao]_vars

NoTwoAlike(p) ==
    \A i, j \in 1..Len(p.participants) :
        p.participants[i].stacks_address = p.participants[j].stacks_address => i = j

Rejected(r) == r.op = "add_participant" /\ ~r.success /\ ~r.raised

\* C38: the participant list of every proposal has no two entries with the
\* same address and at most max_participants entries; an add that is
\* rejected leaves every proposal as it was; and a proposal leaves GATHERING
\* for THRESHOLD_MET at the very add that brings its list to
\* min_participants, so a GATHERING proposal has fewer than that.
C38_Whitelist ==
    /\ [](\A id \in DOMAIN proposals :
            /\ NoTwoAlike(proposals[id])
            /\ participant_count(proposals[id]) <= proposals[id].max_participants
            /\ proposals[id].status = GATHERING =>
                  participant_count(proposals[id]) < proposals[id].min_participants)
    /\ [][/\ Rejected(dao_ret') => proposals' = proposals
          /\ \A id \in DOMAIN proposals :
                proposals[id].status = GATHERING =>
                  /\ proposals'[id].status \in {GATHERING, THRESHOLD_MET}
                  /\ proposals'[id].status = THRESHOLD_MET <=>
                        /\ participant_count(proposals[id]) =
                               proposals[id].min_participants - 1
                        /\ participant_count(proposals'[id]) =
                               proposals[id].min_participants
                        /\ dao_ret'.op = "add_participant"
                        /\ dao_ret'.dao_id = id
         ]_vars

\* A proposal's list is full, and the add just made to it was rejected.
C38_Witness ==
    /\ Rejected(dao_ret)
    /\ dao_ret.dao_id \in DOMAIN proposals
    /\ dao_ret.message = "Already in whitelist or max participants reached"
    /\ participant_count(proposals[dao_ret.dao_id]) =
           proposals[dao_ret.dao_id].max_participants
    /\ proposals[dao_ret.dao_id].status = THRESHOLD_MET

Guarded(ps, dao_id) ==
    \/ dao_id \notin DOMAIN ps
    \/ ~threshold_met(ps[dao_id])
    \/ ps[dao_id].status = DEPLOYED

\* C39: a deploy_dao call whose proposal is missing, short of its threshold
\* or already DEPLOYED returns failure and changes nothing; a proposal in
\* DEPLOYED stays as it is whatever is called; and a deploy_dao call that
\* passes the guards ends with the proposal in DEPLOYED or FAILED.
C39_DeployOnce ==
    [][/\ (dao_ret'.op = "deploy_dao" /\ dao_ret' /= dao_ret
              /\ Guarded(proposals, dao_ret'.dao_id)) =>
            /\ ~dao_ret'.success
            /\ ~dao_ret'.raised
            /\ proposals' = proposals
       /\ \A id \in DOMAIN proposals :
            proposals[id].status = DEPLOYED => proposals'[id] = proposals[id]
       /\ (\E id \in DaoIds, fault \in DeployFaults :
              /\ ~Guarded(proposals, id)
              /\ DeployDao(id, fault)) =>
            \E id \in DOMAIN proposals :
              /\ id = dao_ret'.dao_id
              /\ proposals'[id].status \in {DEPLOYED, FAILED}
      ]_vars

\* The same without its last part: the guards, and DEPLOYED is final.
C39_GuardsAndFinal ==
    [][/\ (dao_ret'.op = "deploy_dao" /\ dao_ret' /= dao_ret
              /\ Guarded(proposals, dao_ret'.dao_id)) =>
            /\ ~dao_ret'.success
            /\ ~dao_ret'.raised
            /\ proposals' = proposals
       /\ \A id \in DOMAIN proposals :
            proposals[id].status = DEPLOYED => proposals'[id] = proposals[id]
      ]_vars

\* A deploy_dao call has raised and left the proposal in DEPLOYING.
C39_LeftDeploying ==
    /\ dao_ret.op = "deploy_dao"
    /\ dao_ret.raised
    /\ dao_ret.dao_id \in DOMAIN proposals
    /\ proposals[dao_ret.dao_id].status = DEPLOYING
====
